---- MODULE Spec2Model ----
(***************************************************************************)
(* A model of the GRBL mill driver of cnc_control (driver.py, tools.py)    *)
(* and of the protocol executor and compiler built on it.                  *)
(*                                                                         *)
(* Spec         the safe motion planner: move_to_position, safe_move and   *)
(*              move_to_positions, the homing sequence and raw G-code      *)
(*              moves, on an open transport.  execute_command is           *)
(*              summarised there by its two outcomes.                      *)
(* SpecExec     the protocol engine: execute_command, its settings block,  *)
(*              its wait-until-idle loop, current_status and the error:22  *)
(*              recovery, step by step; Mill.write.                        *)
(* SpecExecFair SpecExec with the interpreter running every call on.       *)
(* SpecSession  the session: connect_to_mill, __enter__, disconnect, the   *)
(*              auto_home switch and the homing sequence.                  *)
(* SpecLocate   the discovery: locate_mill_over_serial, candidate by       *)
(*              candidate, and mill_port.txt.                              *)
(* SpecTools    the tool store: ToolManager and tools.json.                *)
(* SpecCoordinates  the position report: current_coordinates.              *)
(* SpecStatus   current_status, one call at a time.                        *)
(* SpecHybrid   the charge_hybrid workflow of the potentiostat executor.   *)
(* SpecCompile  the deck sequence compiler and its path planner.           *)
(* SpecRoundTrip  move_to_position followed by current_coordinates on the  *)
(*              device's own position report.                              *)
(*                                                                         *)
(* Lengths are integers (millimetres); Coordinates rounds to 6 decimals,   *)
(* which leaves every integer unchanged.  A G-code line is the sequence of *)
(* its words, a word a pair <<letter, number>>; a command block is the     *)
(* sequence of its lines (the "\n".join of the driver).                    *)
(***************************************************************************)
EXTENDS Integers, Sequences, FiniteSets, TLC

VARIABLES
    pos,             \* work position of the device, as current_coordinates() reports it
    max_z_height,    \* Mill.max_z_height
    working_volume,  \* Mill.working_volume
    homed,           \* Mill.homed
    tool_offsets,    \* ToolManager.tool_offsets: tool name -> offset
    active_connection, \* Mill.active_connection
    config,          \* Mill.config: the settings, key -> value
    auto_home,       \* Mill.auto_home
    pc,              \* "ready": the caller may call; "returned": a call has just returned or raised
    call,            \* the record of the planner call in progress / just finished
    stack,           \* SpecExec: the call stack of execute_command / current_status frames
    out,             \* SpecExec: the command lines execute_command wrote, in order
    xcall,           \* SpecExec: the record of the top-level execute_command call
    tools_json,      \* the persisted tool store (tools.json): a set of tool records, or "missing"
    mill_port_txt,   \* the persisted port of the last discovery (mill_port.txt)
    loc,             \* SpecLocate: the discovery loop of locate_mill_over_serial
    hybrid           \* SpecHybrid: the charge_hybrid workflow and the backend calls it made

vars == <<pos, max_z_height, working_volume, homed, tool_offsets,
          active_connection, config, auto_home, pc, call,
          stack, out, xcall, tools_json, mill_port_txt, loc, hybrid>>

planVars == <<pos, max_z_height, working_volume, homed, tool_offsets, pc, call>>
execVars == <<stack, out, xcall>>
sessVars == <<active_connection, config, auto_home>>
extVars == <<tools_json, mill_port_txt, loc, hybrid>>

----------------------------------------------------------------------------
(* Bounds of the model *)

MaxTargets == 2      \* longest list handed to move_to_positions

(* Program constants *)

safe_z_height == -10
InitialMaxZ == 0
FloorMargin == 3
RestoreFeed == 2000

Max(a, b) == IF a >= b THEN a ELSE b
Min(a, b) == IF a <= b THEN a ELSE b

Coordinates(x, y, z) == [x |-> x, y |-> y, z |-> z]

DefaultWorkingVolume == Coordinates(-415, -300, -200)

(* the tool store as loaded: the default tools plus the tool the tests add *)
LoadedTools ==
    [n \in {"center", "pipette", "test_tool"} |->
        IF n = "test_tool" THEN Coordinates(10, 10, 10) ELSE Coordinates(0, 0, 0)]

get_offset(tool) == tool_offsets[tool]

----------------------------------------------------------------------------
(* Inputs *)

XReq == {-200, -100, 5}
YReq == {-200, -100, 10}
ZReq == {-250, -75, -5, 100}

Requests == {Coordinates(x, y, z) : x \in XReq, y \in YReq, z \in ZReq}

(* requests made with the offset tool *)
ToolRequests == {Coordinates(-200, -200, -75), Coordinates(-100, -100, 100),
                 Coordinates(-5, -200, -75)}

(* targets of batch moves *)
BatchRequests == {Coordinates(-200, -200, -75), Coordinates(-100, -200, -5),
                  Coordinates(-100, -200, 100), Coordinates(-200, 10, -75)}

(* second_z_cord of safe_move: None is the empty sequence *)
SecondZ == {<<>>, <<-80>>, <<5>>}
SecondZFeed == 2000

(* positions a raw G01 sent through execute_command leaves the device at *)
RawPositions == {Coordinates(-100, -100, -50), Coordinates(5, -100, -75)}

(* where the device stands when the session starts *)
StartPosition == Coordinates(-100, -100, -50)

(* work coordinates right after a homing cycle (0,0,0 without axis offsets) *)
HomePositions == {Coordinates(0, 0, 0), Coordinates(0, 0, -5),
                  Coordinates(0, 0, -20), Coordinates(0, 0, -198)}

RECURSIVE SeqsUpTo(_, _)
SeqsUpTo(S, n) ==
    IF n = 0 THEN {<<>>}
    ELSE LET shorter == SeqsUpTo(S, n - 1)
         IN shorter \cup {Append(s, e) : s \in {t \in shorter : Len(t) = n - 1}, e \in S}

----------------------------------------------------------------------------
(* G-code lines *)

G01(words) == <<<<"G", 1>>>> \o words
G01_Z(z) == G01(<<<<"Z", z>>>>)
G01_X(x) == G01(<<<<"X", x>>>>)
G01_Y(y) == G01(<<<<"Y", y>>>>)
G01_XY(x, y) == G01(<<<<"X", x>>, <<"Y", y>>>>)
G01_ZF(z, f) == G01(<<<<"Z", z>>, <<"F", f>>>>)
FeedRate(f) == <<<<"F", f>>>>

HasWord(cmd, l) == \E i \in DOMAIN cmd : cmd[i][1] = l
WordOf(cmd, l) == cmd[CHOOSE i \in DOMAIN cmd : cmd[i][1] = l][2]
IsMotion(cmd) == HasWord(cmd, "G")

(* the device executing one line, and a block of lines, from position p *)
DeviceStep(p, cmd) ==
    IF ~IsMotion(cmd) THEN p
    ELSE [x |-> IF HasWord(cmd, "X") THEN WordOf(cmd, "X") ELSE p.x,
          y |-> IF HasWord(cmd, "Y") THEN WordOf(cmd, "Y") ELSE p.y,
          z |-> IF HasWord(cmd, "Z") THEN WordOf(cmd, "Z") ELSE p.z]

RECURSIVE DeviceRun(_, _)
DeviceRun(p, block) ==
    IF block = <<>> THEN p ELSE DeviceRun(DeviceStep(p, Head(block)), Tail(block))

----------------------------------------------------------------------------
(* The planner's helpers *)

(* current_coordinates() of the mill centre: the reported work position *)
current_coordinates == pos

_is_already_at_target(goto, current) ==
    <<goto.x, goto.y>> = <<current.x, current.y>> /\ goto.z = current.z

_calculate_target_swapped_offset(goto, current, offsets) ==
    Coordinates(goto.x - offsets.x,
                goto.y - offsets.y,
                Max(working_volume.z + FloorMargin,
                    Min(goto.z - offsets.z, max_z_height)))

_calculate_target_unclamped(goto, current, offsets) ==
    Coordinates(goto.x + offsets.x, goto.y + offsets.y, goto.z + offsets.z)

_calculate_target_coordinates(goto, current, offsets) ==
    Coordinates(goto.x + offsets.x,
                goto.y + offsets.y,
                Max(working_volume.z + FloorMargin,
                    Min(goto.z + offsets.z, max_z_height)))

NoError == ""
XOutOfRange == "x coordinate out of range"
YOutOfRange == "y coordinate out of range"
ZOutOfRange == "z coordinate out of range"
CommandExecutionError == "CommandExecutionError"

(* the upper bound of the x check left out *)
_validate_target_no_upper_x(target) ==
    IF ~(working_volume.x <= target.x) THEN XOutOfRange
    ELSE IF ~(working_volume.y <= target.y /\ target.y <= 0) THEN YOutOfRange
    ELSE IF ~(working_volume.z <= target.z /\ target.z <= max_z_height) THEN ZOutOfRange
    ELSE NoError

(* the ValueError _validate_target_coordinates raises, NoError when it returns *)
_validate_target_coordinates(target) ==
    IF ~(working_volume.x <= target.x /\ target.x <= 0) THEN XOutOfRange
    ELSE IF ~(working_volume.y <= target.y /\ target.y <= 0) THEN YOutOfRange
    ELSE IF ~(working_volume.z <= target.z /\ target.z <= max_z_height) THEN ZOutOfRange
    ELSE NoError

(* the per-axis branch emitting Z before X and Y *)
_generate_movement_commands_z_first(current, target, move_z_first) ==
    IF current.z >= safe_z_height \/ move_z_first
    THEN <<G01_XY(target.x, target.y), G01_Z(target.z)>>
    ELSE (IF target.z # current.z THEN <<G01_Z(target.z)>> ELSE <<>>)
         \o (IF target.x # current.x THEN <<G01_X(target.x)>> ELSE <<>>)
         \o (IF target.y # current.y THEN <<G01_Y(target.y)>> ELSE <<>>)

(* the per-axis branch merging the X and Y moves into one command *)
_generate_movement_commands_merged_xy(current, target, move_z_first) ==
    IF current.z >= safe_z_height \/ move_z_first
    THEN <<G01_XY(target.x, target.y), G01_Z(target.z)>>
    ELSE (IF target.x # current.x /\ target.y # current.y
          THEN <<G01_XY(target.x, target.y)>>
          ELSE (IF target.x # current.x THEN <<G01_X(target.x)>> ELSE <<>>)
               \o (IF target.y # current.y THEN <<G01_Y(target.y)>> ELSE <<>>))
         \o (IF target.z # current.z THEN <<G01_Z(target.z)>> ELSE <<>>)

_generate_movement_commands(current, target, move_z_first) ==
    IF current.z >= safe_z_height \/ move_z_first
    THEN <<G01_XY(target.x, target.y), G01_Z(target.z)>>
    ELSE (IF target.x # current.x THEN <<G01_X(target.x)>> ELSE <<>>)
         \o (IF target.y # current.y THEN <<G01_Y(target.y)>> ELSE <<>>)
         \o (IF target.z # current.z THEN <<G01_Z(target.z)>> ELSE <<>>)
         \o (IF target.z = current.z /\ move_z_first THEN <<G01_Z(target.z)>> ELSE <<>>)

(* X and Y both required to differ, as in tests/test_mill_safe_move.py *)
should_move_both_axes(current, destination, safe_height_floor) ==
    IF current.z >= max_z_height \/ current.z >= safe_height_floor THEN FALSE
    ELSE current.x # destination.x /\ current.y # destination.y

(* Mill.__should_move_to_safe_position_first; both callers pass
   max_z_height as safe_height_floor *)
should_move_to_safe_position_first(current, destination, safe_height_floor) ==
    IF current.z >= max_z_height \/ current.z >= safe_height_floor THEN FALSE
    ELSE IF current.x # destination.x \/ current.y # destination.y THEN TRUE
    ELSE FALSE

(* the lift decided and its command left out of the list *)
SafeCommandsLiftOmitted(current, target) ==
    LET move_to_zero ==
            should_move_to_safe_position_first(current, target, max_z_height)
    IN _generate_movement_commands(current, target, move_to_zero)

(* the lift decision and the commands of one target, as safe_move and the
   safe branch of move_to_positions build them *)
SafeCommands(current, target) ==
    LET move_to_zero ==
            should_move_to_safe_position_first(current, target, max_z_height)
    IN (IF move_to_zero THEN <<G01_Z(max_z_height)>> ELSE <<>>)
       \o _generate_movement_commands(current, target, move_to_zero)

Segment(req, current, target, cmds) ==
    [req |-> req, cur |-> current, tgt |-> target, cmds |-> cmds]

RECURSIVE Flatten(_)
Flatten(segs) ==
    IF segs = <<>> THEN <<>> ELSE Head(segs).cmds \o Flatten(Tail(segs))

(* the loop planning every target against the device position *)
RECURSIVE move_to_positions_loop_no_chain(_, _, _, _, _)
move_to_positions_loop_no_chain(coordinates, current, offsets, safe_move_required, segs) ==
    IF coordinates = <<>> THEN [err |-> NoError, segs |-> segs]
    ELSE LET target == _calculate_target_coordinates(Head(coordinates), current, offsets)
             verdict == _validate_target_coordinates(target)
         IN IF verdict # NoError THEN [err |-> verdict, segs |-> segs]
            ELSE move_to_positions_loop_no_chain(Tail(coordinates), current, offsets,
                     safe_move_required,
                     Append(segs, Segment(Head(coordinates), current, target,
                         IF _is_already_at_target(target, current) THEN <<>>
                         ELSE IF safe_move_required THEN SafeCommands(current, target)
                         ELSE _generate_movement_commands(current, target, FALSE))))

(* the loop passing over a target that fails validation instead of raising *)
RECURSIVE move_to_positions_loop_skip_invalid(_, _, _, _, _)
move_to_positions_loop_skip_invalid(coordinates, current, offsets, safe_move_required, segs) ==
    IF coordinates = <<>> THEN [err |-> NoError, segs |-> segs]
    ELSE LET target == _calculate_target_coordinates(Head(coordinates), current, offsets)
             verdict == _validate_target_coordinates(target)
         IN IF verdict # NoError \/ _is_already_at_target(target, current)
            THEN move_to_positions_loop_skip_invalid(Tail(coordinates), current, offsets,
                     safe_move_required,
                     Append(segs, Segment(Head(coordinates), current, target, <<>>)))
            ELSE move_to_positions_loop_skip_invalid(Tail(coordinates), target, offsets,
                     safe_move_required,
                     Append(segs, Segment(Head(coordinates), current, target,
                         IF safe_move_required THEN SafeCommands(current, target)
                         ELSE _generate_movement_commands(current, target, FALSE))))

(* the for loop of move_to_positions: err is the ValueError that ended it,
   segs the per-target command lists gathered so far *)
RECURSIVE move_to_positions_loop(_, _, _, _, _)
move_to_positions_loop(coordinates, current, offsets, safe_move_required, segs) ==
    IF coordinates = <<>> THEN [err |-> NoError, segs |-> segs]
    ELSE LET target == _calculate_target_coordinates(Head(coordinates), current, offsets)
             verdict == _validate_target_coordinates(target)
         IN IF verdict # NoError THEN [err |-> verdict, segs |-> segs]
            ELSE IF _is_already_at_target(target, current)
            THEN move_to_positions_loop(Tail(coordinates), current, offsets,
                     safe_move_required,
                     Append(segs, Segment(Head(coordinates), current, target, <<>>)))
            ELSE move_to_positions_loop(Tail(coordinates), target, offsets,
                     safe_move_required,
                     Append(segs, Segment(Head(coordinates), current, target,
                         IF safe_move_required THEN SafeCommands(current, target)
                         ELSE _generate_movement_commands(current, target, FALSE))))

----------------------------------------------------------------------------
(* The planner's entry points *)

NoCall ==
    [op |-> "none", tool |-> "", targets |-> <<>>, safe |-> FALSE,
     second_z |-> <<>>, cur |-> Coordinates(0, 0, 0), reads |-> 0,
     segs |-> <<>>, sent |-> <<>>, err |-> NoError, ret |-> <<>>,
     status |-> <<>>]

NoXCall == [command |-> "", first |-> <<>>, retries |-> 0, feeds |-> 0,
            state |-> "none", result |-> <<>>,
            wire |-> {}, timeout |-> <<>>, silent |-> FALSE]

(* execute_command(block) seen from its caller: it returns after the device
   ran the block, or raises CommandExecutionError: on the error reply, before
   the device moved, or on an error or alarm seen after it ran the block *)
ExecOutcomes(p, block) ==
    {[err |-> NoError, pos |-> DeviceRun(p, block)]}
    \cup {[err |-> CommandExecutionError, pos |-> DeviceRun(p, SubSeq(block, 1, k))] :
            k \in {0, Len(block)}}

MoveToPosition(goto, tool) ==
    /\ pc = "ready"
    /\ LET offsets == get_offset(tool)
           current == current_coordinates
           target == _calculate_target_coordinates(goto, current, offsets)
           verdict == _validate_target_coordinates(target)
           commands == _generate_movement_commands(current, target, FALSE)
           base == [NoCall EXCEPT !.op = "move_to_position", !.tool = tool,
                                  !.targets = <<goto>>, !.cur = current, !.reads = 1]
       IN IF _is_already_at_target(target, current)
          THEN /\ call' = [base EXCEPT !.segs = <<Segment(goto, current, target, <<>>)>>,
                                       !.ret = <<current>>]
               /\ pos' = pos
          ELSE IF verdict # NoError
          THEN /\ call' = [base EXCEPT !.err = verdict]
               /\ pos' = pos
          ELSE \E o \in ExecOutcomes(pos, commands) :
               /\ call' = [base EXCEPT !.segs = <<Segment(goto, current, target, commands)>>,
                                       !.sent = <<commands>>, !.err = o.err]
               /\ pos' = o.pos
    /\ pc' = "returned"
    /\ UNCHANGED <<max_z_height, working_volume, homed, tool_offsets>>
    /\ UNCHANGED <<execVars, sessVars, extVars>>

SafeMove(goto, tool, second_z_cord) ==
    /\ pc = "ready"
    /\ LET offsets == get_offset(tool)
           current == current_coordinates
           target == _calculate_target_coordinates(goto, current, offsets)
           verdict == _validate_target_coordinates(target)
           commands == SafeCommands(current, target)
           second == IF second_z_cord # <<>>
                     THEN <<G01_ZF(second_z_cord[1] + offsets.z, SecondZFeed),
                            FeedRate(RestoreFeed)>>
                     ELSE <<>>
           base == [NoCall EXCEPT !.op = "safe_move", !.tool = tool, !.safe = TRUE,
                                  !.targets = <<goto>>, !.second_z = second_z_cord,
                                  !.cur = current, !.reads = 1]
       IN IF verdict # NoError
          THEN /\ call' = [base EXCEPT !.err = verdict]
               /\ pos' = pos
          ELSE IF _is_already_at_target(target, current)
          THEN /\ call' = [base EXCEPT !.segs = <<Segment(goto, current, target, <<>>)>>,
                                       !.ret = <<current>>]
               /\ pos' = pos
          ELSE \E o \in ExecOutcomes(pos, commands \o second) :
               /\ call' = [base EXCEPT !.segs = <<Segment(goto, current, target, commands)>>,
                                       !.sent = <<commands \o second>>, !.err = o.err,
                                       !.reads = IF o.err = NoError THEN 2 ELSE 1,
                                       !.ret = IF o.err = NoError THEN <<o.pos>> ELSE <<>>]
               /\ pos' = o.pos
    /\ pc' = "returned"
    /\ UNCHANGED <<max_z_height, working_volume, homed, tool_offsets>>
    /\ UNCHANGED <<execVars, sessVars, extVars>>

MoveToPositions(coordinates, tool, safe_move_required) ==
    /\ pc = "ready"
    /\ LET offsets == get_offset(tool)
           current == current_coordinates
           plan == move_to_positions_loop(coordinates, current, offsets,
                                          safe_move_required, <<>>)
           commands == Flatten(plan.segs)
           base == [NoCall EXCEPT !.op = "move_to_positions", !.tool = tool,
                                  !.safe = safe_move_required,
                                  !.targets = coordinates, !.cur = current, !.reads = 1]
       IN IF plan.err # NoError
          THEN /\ call' = [base EXCEPT !.err = plan.err]
               /\ pos' = pos
          ELSE IF commands = <<>>
          THEN /\ call' = [base EXCEPT !.segs = plan.segs]
               /\ pos' = pos
          ELSE \E o \in ExecOutcomes(pos, commands) :
               /\ call' = [base EXCEPT !.segs = plan.segs, !.sent = <<commands>>,
                                       !.err = o.err]
               /\ pos' = o.pos
    /\ pc' = "returned"
    /\ UNCHANGED <<max_z_height, working_volume, homed, tool_offsets>>
    /\ UNCHANGED <<execVars, sessVars, extVars>>

DefaultFeed == 5000
HomeLine == <<<<"$", "H">>>>

(* homing_sequence: home(), set_feed_rate(5000), clear_buffers(),
   check_max_z_height().  home() sets homed when it saw Idle before its
   timeout; set_feed_rate may raise, and then the ceiling is not re-read.
   The result: the state homing leaves, the command blocks sent, the error *)
homing_sequence(home_pos, completed, feed_ok) ==
    LET after == IF completed THEN home_pos ELSE pos
    IN [pos |-> after,
        homed |-> (homed \/ completed),
        max_z_height |-> IF feed_ok /\ after.z # 0 THEN after.z ELSE max_z_height,
        sent |-> <<<<HomeLine>>, <<FeedRate(DefaultFeed)>>>>,
        err |-> IF feed_ok THEN NoError ELSE CommandExecutionError]

HomingSequence(home_pos, completed, feed_ok) ==
    /\ pc = "ready"
    /\ LET h == homing_sequence(home_pos, completed, feed_ok)
       IN /\ pos' = h.pos
          /\ homed' = h.homed
          /\ max_z_height' = h.max_z_height
          /\ call' = [NoCall EXCEPT !.op = "homing_sequence", !.cur = pos,
                                    !.sent = h.sent, !.err = h.err]
    /\ pc' = "returned"
    /\ UNCHANGED <<working_volume, tool_offsets>>
    /\ UNCHANGED <<execVars, sessVars, extVars>>

(* a G01 line sent directly through execute_command: nothing validates it *)
RawMove(p) ==
    /\ pc = "ready"
    /\ pos' = p
    /\ call' = [NoCall EXCEPT !.op = "execute_command", !.cur = pos,
                              !.sent = <<<<G01(<<<<"X", p.x>>, <<"Y", p.y>>, <<"Z", p.z>>>>)>>>>]
    /\ pc' = "returned"
    /\ UNCHANGED <<max_z_height, working_volume, homed, tool_offsets>>
    /\ UNCHANGED <<execVars, sessVars, extVars>>

(* the caller takes the result; the call record is dropped *)
Return ==
    /\ pc = "returned"
    /\ pc' = "ready"
    /\ call' = NoCall
    /\ UNCHANGED <<pos, max_z_height, working_volume, homed, tool_offsets>>
    /\ UNCHANGED <<execVars, sessVars, extVars>>

----------------------------------------------------------------------------
(* The settings and the working volume.  A settings mapping is what
   execute_command("$$") returns: keys and values are texts, each the
   sequence of its pieces. *)

EmptyDict == [k \in {} |-> <<>>]

Settings(soft_limits, x_travel, y_travel, z_travel) ==
    [k \in {<<"$20">>, <<"$130">>, <<"$131">>, <<"$132">>} |->
        CASE k = <<"$20">> -> <<soft_limits>>
          [] k = <<"$130">> -> <<x_travel>>
          [] k = <<"$131">> -> <<y_travel>>
          [] k = <<"$132">> -> <<z_travel>>]

(* int() and float() of a setting value *)
int(value) ==
    CASE value = <<"0">> -> 0
      [] value = <<"1">> -> 1
      [] value = <<"2">> -> 2
      [] value = <<"3">> -> 3
      [] value = <<"255">> -> 255

float(value) ==
    CASE value = <<"415.000">> -> 415
      [] value = <<"300.000">> -> 300
      [] value = <<"200.000">> -> 200
      [] value = <<"100.000">> -> 100
      [] value = <<"1.000">> -> 1
      [] value = <<"0.000">> -> 0
      [] value = <<"-50.000">> -> -50
      [] value = <<"-100.000">> -> -100

(* read_working_volume() over the settings mapping; it needs the key $20 *)
read_working_volume(settings) ==
    IF int(settings[<<"$20">>]) = 1
    THEN Coordinates(float(settings[<<"$130">>]) * (-1),
                     float(settings[<<"$131">>]) * (-1),
                     float(settings[<<"$132">>]) * (-1))
    ELSE DefaultWorkingVolume

(* the settings file the constructor reads *)
FileConfig == Settings("1", "415.000", "300.000", "200.000")

(* the settings a connected device reports *)
DeviceConfigs ==
    {FileConfig,
     Settings("1", "300.000", "200.000", "100.000"),
     Settings("0", "300.000", "200.000", "100.000"),
     EmptyDict}

(* ToolOffset.to_dict and save_tools: the tool store holds one record per
   tool of the in-memory set *)
to_dict(name, offset) == [name |-> name, x |-> offset.x, y |-> offset.y, z |-> offset.z]

save_tools(tools) == {to_dict(name, tools[name]) : name \in DOMAIN tools}

(* the discovery loop when no discovery runs *)
None == "None"

NoLoc ==
    [phase |-> "idle", port |-> None, known |-> "", ports |-> <<>>,
     i |-> 1, b |-> 1, passes |-> 0, tried |-> <<>>,
     ser_mill |-> <<>>, open |-> {}, found_on |-> "", response |-> <<>>]

(* the charge_hybrid workflow when none runs *)
NoHybrid ==
    [phase |-> "idle", max_repeats |-> 0, voltage_finish |-> FALSE,
     stop_v_max |-> 0, i_sign |-> 0, index |-> 0, log |-> <<>>]

Init ==
    /\ pos = StartPosition
    /\ max_z_height = InitialMaxZ
    /\ config = FileConfig
    /\ working_volume = read_working_volume(FileConfig)
    /\ homed = FALSE
    /\ auto_home = TRUE
    /\ active_connection = FALSE
    /\ tool_offsets = LoadedTools
    /\ pc = "ready"
    /\ call = NoCall
    /\ stack = <<>>
    /\ out = <<>>
    /\ xcall = NoXCall
    /\ tools_json = save_tools(LoadedTools)
    /\ mill_port_txt = ""
    /\ loc = NoLoc
    /\ hybrid = NoHybrid

Next ==
    \/ \E goto \in Requests : MoveToPosition(goto, "center")
    \/ \E goto \in ToolRequests : MoveToPosition(goto, "test_tool")
    \/ \E goto \in Requests, sz \in SecondZ : SafeMove(goto, "center", sz)
    \/ \E goto \in ToolRequests, sz \in SecondZ : SafeMove(goto, "test_tool", sz)
    \/ \E cs \in SeqsUpTo(BatchRequests, MaxTargets), tool \in {"center", "test_tool"},
          safe \in BOOLEAN : MoveToPositions(cs, tool, safe)
    \/ \E hp \in HomePositions, completed \in BOOLEAN, feed_ok \in BOOLEAN :
          HomingSequence(hp, completed, feed_ok)
    \/ \E p \in RawPositions : RawMove(p)
    \/ Return

Spec == Init /\ [][Next]_vars

----------------------------------------------------------------------------
(* Vocabulary of the planner properties *)

MoveOps == {"move_to_position", "safe_move", "move_to_positions"}

Finished(ops) == pc = "returned" /\ call.op \in ops

XYChanged(s) == s.tgt.x # s.cur.x \/ s.tgt.y # s.cur.y
CarriesXY(cmd) == HasWord(cmd, "X") \/ HasWord(cmd, "Y")

(* the resolved target, written as the design states it *)
RawZ(req) == req.z + tool_offsets[call.tool].z
ClampedZ(req) ==
    LET ceiling == IF RawZ(req) <= max_z_height THEN RawZ(req) ELSE max_z_height
    IN IF ceiling >= working_volume.z + 3 THEN ceiling ELSE working_volume.z + 3
Resolved(req) ==
    [x |-> req.x + tool_offsets[call.tool].x,
     y |-> req.y + tool_offsets[call.tool].y,
     z |-> ClampedZ(req)]

XInRange(t) == working_volume.x <= t.x /\ t.x <= 0
YInRange(t) == working_volume.y <= t.y /\ t.y <= 0
ZValueInRange(z) == working_volume.z <= z /\ z <= max_z_height
InRange(t) == XInRange(t) /\ YInRange(t) /\ ZValueInRange(t.z)
FirstOffendingAxis(t) ==
    IF ~XInRange(t) THEN XOutOfRange
    ELSE IF ~YInRange(t) THEN YOutOfRange
    ELSE ZOutOfRange

(* the position target i is planned from: the device position for the first
   target, the previous resolved target after that *)
PlannedFrom(i) == IF i = 1 THEN call.cur ELSE Resolved(call.targets[i - 1])

SafeOp == call.op \in {"safe_move", "move_to_positions"} /\ call.safe

----------------------------------------------------------------------------
(* C1, as stated: in safe_move and move_to_positions(safe_move_required=True),
   a target planned from a Z below safe_z_height that changes X or Y gets a
   command list that starts with the move to max_z_height, ahead of every
   command with an X or Y word. *)
C1_LiftWheneverBelowSafeZ ==
    Finished(MoveOps) /\ SafeOp =>
        \A i \in DOMAIN call.segs :
            LET s == call.segs[i] IN
            (s.cur.z < safe_z_height /\ XYChanged(s)) =>
                /\ s.cmds # <<>>
                /\ s.cmds[1] = G01_Z(max_z_height)
                /\ \A j \in DOMAIN s.cmds : CarriesXY(s.cmds[j]) => j > 1

(* C1, amended: the same, for a current Z that is also below max_z_height
   (at the ceiling there is nothing to lift to, and no lift is emitted). *)
C1_LiftBelowSafeZAndCeiling ==
    Finished(MoveOps) /\ SafeOp =>
        \A i \in DOMAIN call.segs :
            LET s == call.segs[i] IN
            (s.cur.z < safe_z_height /\ s.cur.z < max_z_height /\ XYChanged(s)) =>
                /\ s.cmds # <<>>
                /\ s.cmds[1] = G01_Z(max_z_height)
                /\ \A j \in DOMAIN s.cmds : CarriesXY(s.cmds[j]) => j > 1

C1_Witness ==
    /\ Finished({"move_to_positions"}) /\ call.safe /\ Len(call.segs) = 2
    /\ call.segs[2].cur.z < safe_z_height /\ call.segs[2].cur.z < max_z_height
    /\ call.segs[2].tgt.x # call.segs[2].cur.x /\ call.segs[2].tgt.y = call.segs[2].cur.y
    /\ call.segs[2].cmds[1] = G01_Z(max_z_height)
    /\ Len(call.sent) = 1

(* C2, as stated: move_to_position, from a Z below safe_z_height to a target
   that changes X or Y, emits a lift to max_z_height before any X or Y move. *)
C2_MoveToPositionLifts ==
    Finished({"move_to_position"}) =>
        \A i \in DOMAIN call.segs :
            LET s == call.segs[i] IN
            (s.cur.z < safe_z_height /\ XYChanged(s)) =>
                \E j \in DOMAIN s.cmds :
                    /\ s.cmds[j] = G01_Z(max_z_height)
                    /\ \A k \in DOMAIN s.cmds : CarriesXY(s.cmds[k]) => j < k

(* C2, amended: move_to_position emits no lift.  From a Z below safe_z_height
   to a target that changes X or Y its commands are single-axis moves that
   start with an X or Y move; the only Z move is the last command, to the
   target Z. *)
C2_MoveToPositionPerAxisNoLift ==
    Finished({"move_to_position"}) =>
        \A i \in DOMAIN call.segs :
            LET s == call.segs[i] IN
            (s.cur.z < safe_z_height /\ XYChanged(s)) =>
                /\ s.cmds # <<>>
                /\ CarriesXY(s.cmds[1])
                /\ \A j \in DOMAIN s.cmds :
                       /\ Len(s.cmds[j]) = 2
                       /\ HasWord(s.cmds[j], "Z") =>
                              j = Len(s.cmds) /\ s.cmds[j] = G01_Z(s.tgt.z)

C2_Witness ==
    /\ Finished({"move_to_position"}) /\ Len(call.segs) = 1
    /\ call.segs[1].cur.z < safe_z_height /\ call.segs[1].cur.z < max_z_height
    /\ Len(call.segs[1].cmds) = 3
    /\ call.sent = <<call.segs[1].cmds>>

(* C3: from a Z at or above safe_z_height, every entry point emits for a
   target that differs from the current position exactly the combined XY
   move followed by the Z move. *)
C3_TwoCommandsAboveSafeZ ==
    Finished(MoveOps) =>
        \A i \in DOMAIN call.segs :
            LET s == call.segs[i] IN
            (s.cur.z >= safe_z_height /\ s.tgt # s.cur) =>
                s.cmds = <<G01_XY(s.tgt.x, s.tgt.y), G01_Z(s.tgt.z)>>

(* C4: when the resolved target equals the current position, every entry
   point sends nothing and returns normally, the single-move calls with the
   current position. *)
C4_AlreadyAtTargetReturns ==
    (/\ Finished(MoveOps)
     /\ Len(call.targets) = 1
     /\ Resolved(call.targets[1]) = call.cur) =>
            /\ call.err = NoError
            /\ call.sent = <<>>
            /\ call.op # "move_to_positions" => call.ret = <<call.cur>>

(* the first target of the call that fails validation, if any *)
FirstInvalid ==
    CHOOSE k \in DOMAIN call.targets :
        /\ ~InRange(Resolved(call.targets[k]))
        /\ \A j \in 1..(k - 1) : InRange(Resolved(call.targets[j]))

(* C5, as stated: a resolved target with X or Y out of range is rejected
   with the error of its first offending axis, and nothing is sent. *)
C5_OutOfRangeRejected ==
    (/\ Finished(MoveOps)
     /\ \E i \in DOMAIN call.targets :
              ~(XInRange(Resolved(call.targets[i])) /\ YInRange(Resolved(call.targets[i])))) =>
            /\ call.err = FirstOffendingAxis(Resolved(call.targets[FirstInvalid]))
            /\ call.sent = <<>>

(* C5, amended: the same for a resolved target that differs from the
   position it is planned from (move_to_position returns early, without
   validating, when the two are equal). *)
C5_OutOfRangeRejectedUnlessAtTarget ==
    (/\ Finished(MoveOps)
     /\ \E i \in DOMAIN call.targets :
              /\ ~(XInRange(Resolved(call.targets[i])) /\ YInRange(Resolved(call.targets[i])))
              /\ Resolved(call.targets[i]) # PlannedFrom(i)) =>
            /\ call.err = FirstOffendingAxis(Resolved(call.targets[FirstInvalid]))
            /\ call.sent = <<>>

C5_Witness ==
    /\ Finished({"move_to_positions"}) /\ Len(call.targets) = 2
    /\ InRange(Resolved(call.targets[1]))
    /\ Resolved(call.targets[1]) # call.cur
    /\ XInRange(Resolved(call.targets[2])) /\ ~YInRange(Resolved(call.targets[2]))
    /\ call.err = YOutOfRange
    /\ call.sent = <<>>

(* C6, as stated: with X and Y in range, a target whose requested Z plus
   tool offset Z lies outside [working_volume.z, max_z_height] is rejected
   with the z out-of-range error and nothing is sent. *)
C6_RawZOutOfRangeRejected ==
    (/\ Finished(MoveOps)
     /\ \A i \in DOMAIN call.targets :
              XInRange(Resolved(call.targets[i])) /\ YInRange(Resolved(call.targets[i]))
     /\ \E i \in DOMAIN call.targets : ~ZValueInRange(RawZ(call.targets[i]))) =>
            /\ call.err = ZOutOfRange
            /\ call.sent = <<>>

(* C6, amended: the planner validates the clamped Z.  With X and Y in range
   (and, for move_to_position, a resolved target that differs from the
   current position) the z out-of-range error is raised, and nothing sent,
   exactly when the clamped Z lies outside [working_volume.z, max_z_height];
   a target whose requested Z plus offset is outside that range and whose
   clamped Z is inside is planned with the clamped Z. *)
C6_ClampedZValidated ==
    (/\ Finished(MoveOps)
     /\ \A i \in DOMAIN call.targets :
              XInRange(Resolved(call.targets[i])) /\ YInRange(Resolved(call.targets[i]))
     /\ (call.op = "move_to_position" => Resolved(call.targets[1]) # call.cur)) =>
            /\ call.err = ZOutOfRange <=>
                   \E i \in DOMAIN call.targets : ~ZValueInRange(ClampedZ(call.targets[i]))
            /\ call.err = ZOutOfRange => call.sent = <<>>
            /\ call.err # ZOutOfRange =>
                   /\ Len(call.segs) = Len(call.targets)
                   /\ \A i \in DOMAIN call.segs :
                          /\ call.segs[i].tgt.z = ClampedZ(call.targets[i])
                          /\ \A j \in DOMAIN call.segs[i].cmds :
                                 HasWord(call.segs[i].cmds[j], "Z") =>
                                     ZValueInRange(WordOf(call.segs[i].cmds[j], "Z"))

C6_Witness ==
    /\ Finished({"safe_move"}) /\ Len(call.segs) = 1
    /\ RawZ(call.targets[1]) > max_z_height
    /\ call.err = NoError
    /\ call.segs[1].tgt.z = max_z_height
    /\ call.segs[1].cur.z < max_z_height
    /\ call.sent # <<>>

(* C7: the resolved target is requested + tool offset in X and Y, and the
   clamp max(working_volume.z + 3, min(requested.z + offset.z, max_z_height))
   in Z; the commands of the target carry these values: every X and Y word,
   the final Z word, and the device ends on the resolved target. *)
C7_CommandsCarryResolvedTarget ==
    Finished(MoveOps) =>
        \A i \in DOMAIN call.segs :
            LET s == call.segs[i] IN
            /\ s.tgt = Resolved(s.req)
            /\ s.req = call.targets[i]
            /\ \A j \in DOMAIN s.cmds :
                   /\ HasWord(s.cmds[j], "X") => WordOf(s.cmds[j], "X") = Resolved(s.req).x
                   /\ HasWord(s.cmds[j], "Y") => WordOf(s.cmds[j], "Y") = Resolved(s.req).y
                   /\ HasWord(s.cmds[j], "Z") =>
                          WordOf(s.cmds[j], "Z") \in {Resolved(s.req).z, max_z_height}
            /\ s.cmds # <<>> => DeviceRun(s.cur, s.cmds) = Resolved(s.req)

(* the example of tests/test_mill.py: (-200,-200,-75) with offset (10,10,10) *)
C7_Witness ==
    /\ Finished({"move_to_positions"}) /\ call.tool = "test_tool"
    /\ call.targets = <<Coordinates(-200, -200, -75)>>
    /\ call.cur = Coordinates(-100, -100, -50)
    /\ max_z_height = 0
    /\ call.sent = <<<<G01_Z(0), G01_XY(-190, -190), G01_Z(-65)>>>>

(* C8: move_to_positions reads the device position once, plans every target
   from the previous resolved target, and hands all commands, in target
   order, to one execute_command call; nothing is sent when no target emits
   a command or when a target is rejected. *)
C8_OneBlockChainedTargets ==
    Finished({"move_to_positions"}) =>
        /\ call.reads = 1
        /\ Len(call.sent) <= 1
        /\ \A i \in DOMAIN call.segs :
               /\ call.segs[i].cur = PlannedFrom(i)
               /\ call.segs[i].cmds # <<>> =>
                      DeviceRun(PlannedFrom(i), call.segs[i].cmds) = Resolved(call.targets[i])
        /\ call.err \in {XOutOfRange, YOutOfRange, ZOutOfRange} => call.sent = <<>>
        /\ call.err \notin {XOutOfRange, YOutOfRange, ZOutOfRange} =>
               /\ Len(call.segs) = Len(call.targets)
               /\ call.sent = IF Flatten(call.segs) = <<>> THEN <<>>
                              ELSE <<Flatten(call.segs)>>

C8_Witness ==
    /\ Finished({"move_to_positions"}) /\ Len(call.targets) = 2
    /\ call.err = NoError
    /\ call.segs[1].cmds # <<>> /\ call.segs[2].cmds # <<>>
    /\ call.segs[1].tgt # call.cur
    /\ call.sent = <<call.segs[1].cmds \o call.segs[2].cmds>>
    /\ pos = call.segs[2].tgt

----------------------------------------------------------------------------
(* The protocol engine: texts on the serial line *)

MaxDepth == 3        \* nested execute_command calls before the interpreter's recursion limit
MaxPolls == 2        \* current_status polls of one wait-until-idle loop that are counted
MaxLines == 2        \* lines of a settings block ahead of its ok line

OkLine == "ok\r\n"
Error22Line == "error:22\r\n"
Error9Line == "error:9\r\n"
AlarmLine == "ALARM:1\r\n"
IdleLine == "<Idle|WPos:0.000,0.000,0.000|FS:0,0>\r\n"
RunLine == "<Run|WPos:0.000,0.000,0.000|FS:500,0>\r\n"

(* str.lower() of a line *)
LowerLine(l) ==
    CASE l = AlarmLine -> "alarm:1\r\n"
      [] l = IdleLine -> "<idle|wpos:0.000,0.000,0.000|fs:0,0>\r\n"
      [] l = RunLine -> "<run|wpos:0.000,0.000,0.000|fs:500,0>\r\n"
      [] l = "Grbl 1.1h ['$' for help]\r\n" -> "grbl 1.1h ['$' for help]\r\n"
      [] OTHER -> l

(* the substrings the driver searches for, case-sensitively, in a line *)
Needles(l) ==
    CASE l = "ok" -> {"ok"}
      [] l = OkLine -> {"ok"}
      [] l = Error22Line -> {"error", "error:22"}
      [] l = Error9Line -> {"error"}
      [] l = AlarmLine -> {"ALARM"}
      [] l = "alarm:1\r\n" -> {"alarm"}
      [] l = IdleLine -> {"Idle", "<"}
      [] l = RunLine -> {"<Run", "Run", "<"}
      [] l = "Grbl 1.1h ['$' for help]\r\n" -> {"Grbl"}
      [] OTHER -> {}

(* a str is the sequence of its lines; a list is what readlines() returns *)
Str(lines) == [kind |-> "str", lines |-> lines]
List(lines) == [kind |-> "list", lines |-> lines]
EmptyStr == Str(<<>>)

Lower(text) == Str([i \in DOMAIN text.lines |-> LowerLine(text.lines[i])])

(* Python's `needle in status`: a substring test on a str, an element test
   on a list (no needle is a whole line) *)
In(needle, status) ==
    /\ status.kind = "str"
    /\ \E i \in DOMAIN status.lines : needle \in Needles(status.lines[i])

(* what one read() can return *)
Replies ==
    {EmptyStr, Str(<<OkLine>>), Str(<<Error22Line>>), Str(<<Error9Line>>),
     Str(<<AlarmLine>>), Str(<<IdleLine>>), Str(<<RunLine>>),
     Str(<<Error22Line, IdleLine>>)}

(* what readlines() can return after the queries went unanswered *)
LineLists == {<<>>, <<Error9Line>>, <<"[MSG:Pgm End]\r\n">>}

interactive_mode == FALSE
StatusAttempts == 5

StatusReturnError == "StatusReturnError"

(* the query loop of current_status over the reads it gets: rest holds the
   replies to the "?" queries still to come *)
RECURSIVE current_status_loop(_, _, _)
current_status_loop(status, rest, attempt_limit) ==
    IF status \in {EmptyStr, Str(<<"ok">>)} /\ attempt_limit > 0 /\ rest # <<>>
    THEN current_status_loop(Head(rest), Tail(rest), attempt_limit - 1)
    ELSE [status |-> status, queries |-> StatusAttempts - attempt_limit]

(* a current_status that returns the buffered lines whatever they hold *)
current_status_unsearched(interactive, reads, lines) ==
    LET polled == current_status_loop(Head(reads), Tail(reads), StatusAttempts)
    IN IF polled.status # EmptyStr
       THEN [raise |-> NoError, status |-> polled.status, queries |-> polled.queries]
       ELSE IF lines = <<>>
       THEN [raise |-> IF interactive THEN NoError ELSE StatusReturnError,
             status |-> EmptyStr, queries |-> polled.queries]
       ELSE [raise |-> NoError, status |-> List(lines), queries |-> polled.queries]

(* current_status(): reads[1] is the first read(), the others answer the
   queries; lines is what readlines() finds.  raise names the exception. *)
current_status(interactive, reads, lines) ==
    LET polled == current_status_loop(Head(reads), Tail(reads), StatusAttempts)
        found == \E i \in DOMAIN lines :
                     {"error", "alarm"} \cap Needles(LowerLine(lines[i])) # {}
    IN IF polled.status # EmptyStr
       THEN [raise |-> NoError, status |-> polled.status, queries |-> polled.queries]
       ELSE IF lines = <<>> \/ found
       THEN [raise |-> IF interactive THEN NoError ELSE StatusReturnError,
             status |-> EmptyStr, queries |-> polled.queries]
       ELSE [raise |-> NoError, status |-> List(lines), queries |-> polled.queries]

(* the reads of one current_status call: n unanswered reads, then one reply *)
StatusReads ==
    {[i \in 1..(n + 1) |-> IF i <= n THEN EmptyStr ELSE r] :
        n \in 0..StatusAttempts, r \in Replies \ {EmptyStr}}
    \cup {[i \in 1..(StatusAttempts + 1) |-> EmptyStr]}

----------------------------------------------------------------------------
(* The protocol engine: execute_command, one frame per nested call *)

Commands == {"G01 X-10", "g01 x-10", "$X", "$J=G91 X1", "$$"}
FeedCommand == "F2000"
(* every command taken for a "$" command: no command waits for Idle *)
startswith_dollar_always(command) == command = command

startswith_dollar(command) == command \in {"$X", "$J=G91 X1", "$$", "$H"}

(* str.upper() of a command *)
upper(command) == IF command = "g01 x-10" THEN "G01 X-10" ELSE command

(* one ser_mill.write: the text and the newlines that end it *)
Transmit(text, newlines) == [text |-> text, newlines |-> newlines]

(* Mill.write hands the upper-cased command on, with a newline unless it
   is the status query *)
write(command) ==
    LET cmd == upper(command)
    IN Transmit(cmd, IF cmd # "?" THEN 1 ELSE 0)

(* the commands callers hand to Mill.write *)
WriteCommands == {"g01 x-10", "G01 X-10", "?"}

Frame(command) == [command |-> command, phase |-> "write",
                   status |-> EmptyStr, polls |-> 0, lines |-> <<>>]

Top == stack[Len(stack)]
SetTop(f) == [stack EXCEPT ![Len(stack)] = f]
Running == stack # <<>>

(* every raise inside execute_command's try block ends, wrapped level by
   level, as CommandExecutionError at the outermost caller *)
RaiseAfter(cause, written) ==
    /\ stack' = <<>>
    /\ xcall' = [xcall EXCEPT !.state = "raised", !.result = <<cause>>,
                              !.wire = @ \cup written]
    /\ out' = out

Raise(cause) == RaiseAfter(cause, {})

(* a caller invokes execute_command(command) *)
ExecCall(command) ==
    /\ ~Running
    /\ stack' = <<Frame(command)>>
    /\ out' = <<>>
    /\ xcall' = [NoXCall EXCEPT !.command = command, !.state = "running"]
    /\ UNCHANGED <<planVars, sessVars, extVars>>

(* self.ser_mill.write(command_bytes + b"\n"): the command goes out as it
   was passed; "$$" then reads its settings block, every other command one
   response *)
ExecWrite ==
    /\ Running /\ Top.phase = "write"
    /\ out' = Append(out, Top.command)
    /\ stack' = SetTop([Top EXCEPT !.phase = IF Top.command = "$$"
                                             THEN "settings" ELSE "read"])
    /\ xcall' = [xcall EXCEPT
                    !.retries = IF Len(stack) > 1 /\ Top.command = xcall.command
                                THEN @ + 1 ELSE @,
                    !.feeds = IF Top.command = FeedCommand THEN @ + 1 ELSE @,
                    !.wire = @ \cup {Transmit(Top.command, 1)}]
    /\ UNCHANGED <<planVars, sessVars, extVars>>

(* mill_response = self.read().lower() *)
ExecRead(reply) ==
    /\ Running /\ Top.phase = "read"
    /\ stack' = SetTop([Top EXCEPT
                          !.phase = IF startswith_dollar(Top.command)
                                    THEN "classify" ELSE "wait",
                          !.status = Lower(reply)])
    /\ xcall' = IF Len(out) = 1 THEN [xcall EXCEPT !.first = <<reply>>] ELSE xcall
    /\ out' = out
    /\ UNCHANGED <<planVars, sessVars, extVars>>

(* __wait_for_completion: the loop ends on a status that contains Idle *)
WaitIdle ==
    /\ Running /\ Top.phase = "wait"
    /\ In("Idle", Top.status)
    /\ stack' = SetTop([Top EXCEPT !.phase = "classify"])
    /\ UNCHANGED <<out, xcall>>
    /\ UNCHANGED <<planVars, sessVars, extVars>>

(* ... raises on a status that contains error or alarm *)
WaitRaise ==
    /\ Running /\ Top.phase = "wait"
    /\ ~In("Idle", Top.status)
    /\ In("error", Top.status) \/ In("alarm", Top.status)
    /\ Raise(StatusReturnError)
    /\ UNCHANGED <<planVars, sessVars, extVars>>

(* ... returns the last status once the timeout has elapsed; a status with
   <Run has just restarted the clock.  Time is not measured: after a poll the
   deadline may have passed or not *)
WaitTimeout ==
    /\ Running /\ Top.phase = "wait"
    /\ ~In("Idle", Top.status)
    /\ ~In("error", Top.status) /\ ~In("alarm", Top.status)
    /\ ~In("<Run", Top.status)
    /\ Top.polls > 0
    /\ stack' = SetTop([Top EXCEPT !.phase = "classify"])
    /\ xcall' = IF Len(stack) = 1 THEN [xcall EXCEPT !.timeout = <<Top.status>>] ELSE xcall
    /\ out' = out
    /\ UNCHANGED <<planVars, sessVars, extVars>>

(* ... and polls current_status() otherwise; current_status writes one "?"
   per query.  polls counts the polls of this loop up to MaxPolls *)
WaitPoll(reads, lines) ==
    /\ Running /\ Top.phase = "wait"
    /\ ~In("Idle", Top.status)
    /\ ~In("error", Top.status) /\ ~In("alarm", Top.status)
    /\ LET polled == current_status(interactive_mode, reads, lines)
           queried == IF polled.queries > 0 THEN {Transmit("?", 0)} ELSE {}
       IN IF polled.raise # NoError
          THEN RaiseAfter(polled.raise, queried)
          ELSE /\ stack' = SetTop([Top EXCEPT !.status = polled.status,
                                              !.polls = Min(@ + 1, MaxPolls)])
               /\ xcall' = [xcall EXCEPT !.wire = @ \cup queried]
               /\ out' = out
    /\ UNCHANGED <<planVars, sessVars, extVars>>

(* re.search(r"(error|alarm)", mill_response): a list is a TypeError;
   error:22 starts the recovery with set_feed_rate(2000), any other error or
   alarm raises StatusReturnError; a nested call beyond the interpreter's
   recursion limit is a RecursionError *)
Classify ==
    /\ Running /\ Top.phase = "classify"
    /\ IF Top.status.kind = "list"
       THEN Raise("TypeError")
       ELSE IF In("error", Top.status) \/ In("alarm", Top.status)
       THEN IF In("error:22", Top.status)
            THEN IF Len(stack) < MaxDepth
                 THEN /\ stack' = Append(SetTop([Top EXCEPT !.phase = "feed", !.status = EmptyStr,
                                                            !.polls = 0]),
                                         Frame(FeedCommand))
                      /\ UNCHANGED <<out, xcall>>
                 ELSE Raise("RecursionError")
            ELSE Raise(StatusReturnError)
       ELSE /\ stack' = SetTop([Top EXCEPT !.phase = "return"])
            /\ UNCHANGED <<out, xcall>>
    /\ UNCHANGED <<planVars, sessVars, extVars>>

(* mill_response = self.execute_command(command), after set_feed_rate *)
Resend ==
    /\ Running /\ Top.phase = "resend"
    /\ IF Len(stack) < MaxDepth
       THEN /\ stack' = Append(SetTop([Top EXCEPT !.phase = "retry"]), Frame(Top.command))
            /\ UNCHANGED <<out, xcall>>
       ELSE Raise("RecursionError")
    /\ UNCHANGED <<planVars, sessVars, extVars>>

(* return mill_response: to the outermost caller, to set_feed_rate in the
   recovering frame, or as the result of the retry *)
ExecReturn ==
    /\ Running /\ Top.phase = "return"
    /\ IF Len(stack) = 1
       THEN /\ stack' = <<>>
            /\ xcall' = [xcall EXCEPT !.state = "returned", !.result = <<Top.status>>]
       ELSE LET caller == stack[Len(stack) - 1]
                resumed == IF caller.phase = "feed"
                           THEN [caller EXCEPT !.phase = "resend"]
                           ELSE [caller EXCEPT !.phase = "return", !.status = Top.status]
            IN /\ stack' = [SubSeq(stack, 1, Len(stack) - 1) EXCEPT ![Len(stack) - 1] = resumed]
               /\ xcall' = xcall
    /\ out' = out
    /\ UNCHANGED <<planVars, sessVars, extVars>>

(* Mill.write(command), as txrx and other callers use it *)
Write(command) ==
    /\ ~Running
    /\ xcall' = [NoXCall EXCEPT !.command = command, !.state = "written",
                                !.wire = {write(command)}]
    /\ out' = <<>>
    /\ stack' = stack
    /\ UNCHANGED <<planVars, sessVars, extVars>>

----------------------------------------------------------------------------
(* The protocol engine: the settings block of "$$".  A line is the sequence
   of its pieces; "=", "[MSG", "Grbl", the blank and the line end are pieces
   of their own, so that the driver's searches are tests on pieces. *)

CRLF == "\r\n"
Whitespace == {" ", CRLF}

Setting20 == <<"$20", "=", "1", CRLF>>
Setting20Off == <<"$20", "=", "0", CRLF>>
Setting130 == <<"$130", " ", "=", " ", "415.000", CRLF>>
SettingN0 == <<"$N0", "=", "G10L2P1X", "=", "0", CRLF>>
BlankLine == <<CRLF>>
MsgLine == <<"[MSG", ":", "$20", "=", "1", "]", CRLF>>
BannerLine == <<"Grbl", " ", "1.1h", CRLF>>
ErrorLine == <<"error:9", CRLF>>
OkTerminator == <<"ok", CRLF>>
TimedOut == <<>>          \* readline() returns b"" when its timeout passes

(* the lines a device can send ahead of the ok line *)
SettingsLines == {Setting20, Setting20Off, Setting130, SettingN0, BlankLine,
                  MsgLine, BannerLine, ErrorLine}

RECURSIVE rstrip(_)
rstrip(l) ==
    IF l # <<>> /\ l[Len(l)] \in Whitespace
    THEN rstrip(SubSeq(l, 1, Len(l) - 1))
    ELSE l

RECURSIVE lstrip(_)
lstrip(l) ==
    IF l # <<>> /\ Head(l) \in Whitespace THEN lstrip(Tail(l)) ELSE l

strip(l) == lstrip(rstrip(l))

startswith(l, piece) == l # <<>> /\ l[1] = piece
Contains(l, piece) == \E i \in DOMAIN l : l[i] = piece

(* split on the last "=" *)
split_last(l, sep) ==
    LET i == CHOOSE j \in DOMAIN l : l[j] = sep /\ \A k \in (j + 1)..Len(l) : l[k] # sep
    IN [key |-> SubSeq(l, 1, i - 1), value |-> SubSeq(l, i + 1, Len(l))]

(* setting.split("=", 1) *)
split_first(l, sep) ==
    LET i == CHOOSE j \in DOMAIN l : l[j] = sep /\ \A k \in 1..(j - 1) : l[k] # sep
    IN [key |-> SubSeq(l, 1, i - 1), value |-> SubSeq(l, i + 1, Len(l))]

Put(dict, key, value) ==
    [k \in DOMAIN dict \cup {key} |-> IF k = key THEN value ELSE dict[k]]

(* the loop that parses the settings into a dictionary *)
RECURSIVE parse_settings(_, _)
parse_settings(full_mill_response, settings_dict) ==
    IF full_mill_response = <<>>
    THEN settings_dict
    ELSE LET setting == Head(full_mill_response)
             rest == Tail(full_mill_response)
         IN IF setting = <<>>
            THEN parse_settings(rest, settings_dict)
            ELSE IF startswith(setting, "[MSG") \/ Contains(setting, "Grbl")
            THEN parse_settings(rest, settings_dict)
            ELSE IF ~Contains(setting, "=")
            THEN parse_settings(rest, settings_dict)
            ELSE LET kv == split_first(setting, "=")
                 IN parse_settings(rest, Put(settings_dict, strip(kv.key), strip(kv.value)))

Dict(map, lines) == [kind |-> "dict", map |-> map, lines |-> lines]

NonEmpty(lines) == Len(SelectSeq(lines, LAMBDA l : l # <<>>))

(* a run of empty lines at the end of the list is kept as one line when its
   length is odd and as two when it is even: the parse skips empty lines *)
EndsWithEmptyPair(lines) ==
    /\ Len(lines) >= 2
    /\ lines[Len(lines)] = <<>>
    /\ lines[Len(lines) - 1] = <<>>

(* one readline() of the settings loop, decoded and rstripped, appended to
   full_mill_response; the loop ends on the line "ok", and the lines before
   it are parsed and returned.  A silent device lets every readline time
   out *)
SettingsRead(line) ==
    /\ Running /\ Top.phase = "settings"
    /\ xcall.silent => line = TimedOut
    /\ LET read == rstrip(line)
           full_mill_response ==
               IF read = <<>> /\ EndsWithEmptyPair(Top.lines)
               THEN SubSeq(Top.lines, 1, Len(Top.lines) - 1)
               ELSE Append(Top.lines, read)
       IN /\ (read # <<>> /\ read # <<"ok">>) => NonEmpty(Top.lines) < MaxLines
          /\ IF read = <<"ok">>
             THEN stack' = SetTop([Top EXCEPT
                      !.phase = "return",
                      !.lines = full_mill_response,
                      !.status = Dict(parse_settings(SubSeq(full_mill_response, 1,
                                                            Len(full_mill_response) - 1),
                                                     EmptyDict),
                                      full_mill_response)])
             ELSE stack' = SetTop([Top EXCEPT !.lines = full_mill_response])
    /\ UNCHANGED <<out, xcall>>
    /\ UNCHANGED <<planVars, sessVars, extVars>>

(* the device stops answering *)
DeviceSilent ==
    /\ Running /\ Top.phase = "settings"
    /\ ~xcall.silent
    /\ xcall' = [xcall EXCEPT !.silent = TRUE]
    /\ UNCHANGED <<stack, out>>
    /\ UNCHANGED <<planVars, sessVars, extVars>>

(* the steps execute_command takes once it has been called *)
ExecStep ==
    \/ ExecWrite
    \/ \E reply \in Replies : ExecRead(reply)
    \/ \E line \in SettingsLines \cup {OkTerminator, TimedOut} : SettingsRead(line)
    \/ WaitIdle
    \/ WaitRaise
    \/ WaitTimeout
    \/ \E reads \in StatusReads, lines \in LineLists : WaitPoll(reads, lines)
    \/ Classify
    \/ Resend
    \/ ExecReturn

NextExec ==
    \/ \E command \in Commands : ExecCall(command)
    \/ \E command \in WriteCommands : Write(command)
    \/ DeviceSilent
    \/ ExecStep

SpecExec == Init /\ [][NextExec]_vars

(* the interpreter runs a called execute_command on; every pass of the wait
   loop reads the clock, so a deadline that stays reachable is reached *)
SpecExecFair == SpecExec /\ WF_vars(ExecStep) /\ WF_vars(WaitTimeout)

----------------------------------------------------------------------------
(* The session *)

MillConnectionError == "MillConnectionError"
MillConfigError == "MillConfigError"
KeyError == "KeyError"
AttributeError == "AttributeError"

(* reset(): execute_command("$X") *)
UnlockLine == <<<<"$", "X">>>>

(* check_for_alarm_state(): buffered is what its first read() returns, reads
   and lines are what the current_status() call gets when that read is
   blank, unlock_ok tells whether execute_command("$X") returns.  A
   non-blank first read is a str, and status[-1].decode() on it is an
   AttributeError; a list from current_status() has no lower().
   status records where the first status came from. *)
check_for_alarm_state(buffered, reads, lines, unlock_ok) ==
    IF buffered # EmptyStr
    THEN [err |-> AttributeError, sent |-> <<>>, status |-> <<"buffered", buffered>>]
    ELSE LET s == current_status(interactive_mode, reads, lines)
             seen == <<"queried", s.status>>
             alarm == In("alarm", Lower(s.status))
             reset == IF alarm THEN <<<<UnlockLine>>>> ELSE <<>>
         IN IF s.raise # NoError
            THEN [err |-> s.raise, sent |-> <<>>, status |-> seen]
            ELSE IF s.status = EmptyStr
            THEN [err |-> MillConnectionError, sent |-> <<>>, status |-> seen]
            ELSE IF s.status.kind = "list"
            THEN [err |-> AttributeError, sent |-> <<>>, status |-> seen]
            ELSE IF alarm /\ ~unlock_ok
            THEN [err |-> CommandExecutionError, sent |-> reset, status |-> seen]
            ELSE IF In("error", Lower(s.status))
            THEN [err |-> MillConnectionError, sent |-> reset, status |-> seen]
            ELSE [err |-> NoError, sent |-> reset, status |-> seen]

(* how a connection attempt goes: whether the device is found and opened,
   whether grbl_settings() returns, and what check_for_alarm_state meets *)
Course(found, settings_ok, buffered, reads, lines, unlock_ok) ==
    [found |-> found, settings_ok |-> settings_ok, buffered |-> buffered,
     reads |-> reads, lines |-> lines, unlock_ok |-> unlock_ok]

Unanswered == [i \in 1..(StatusAttempts + 1) |-> EmptyStr]

ConnectReads ==
    {<<Str(<<IdleLine>>)>>, <<Str(<<AlarmLine>>)>>, <<EmptyStr, Str(<<AlarmLine>>)>>,
     <<Str(<<Error9Line>>)>>}

ConnectCourses ==
    {Course(FALSE, TRUE, EmptyStr, Unanswered, <<>>, TRUE),
     Course(TRUE, FALSE, EmptyStr, Unanswered, <<>>, TRUE)}
    \cup {Course(TRUE, TRUE, b, Unanswered, <<>>, TRUE) :
             b \in {Str(<<AlarmLine>>), Str(<<IdleLine>>)}}
    \cup {Course(TRUE, TRUE, EmptyStr, r, <<>>, u) : r \in ConnectReads, u \in BOOLEAN}
    \cup {Course(TRUE, TRUE, EmptyStr, Unanswered, l, TRUE) : l \in LineLists}

(* read_mill_config() on the open transport: config becomes what
   grbl_settings() returns; when that call raises, the exception is turned
   into a MillConfigError and config is left as it was *)
read_mill_config(device_config, settings_ok) ==
    IF settings_ok
    THEN [config |-> device_config, err |-> NoError]
    ELSE [config |-> config, err |-> MillConfigError]

(* connect_to_mill: locate the device and mark the connection active, read
   the settings from the device into config (and the settings file), call
   read_working_volume(), whose result is dropped, check the first status
   and clear the buffers.  The result: the fields connect_to_mill leaves,
   the commands it sent and the error it raises *)
connect_to_mill(device_config, course) ==
    LET r == read_mill_config(device_config, course.settings_ok)
        a == check_for_alarm_state(course.buffered, course.reads, course.lines,
                                   course.unlock_ok)
    IN IF ~course.found
       THEN [active_connection |-> active_connection, config |-> config,
             working_volume |-> working_volume, err |-> MillConnectionError,
             sent |-> <<>>, status |-> <<>>]
       ELSE IF r.err # NoError
       THEN [active_connection |-> TRUE, config |-> r.config,
             working_volume |-> working_volume, err |-> r.err,
             sent |-> <<>>, status |-> <<"settings", "failed">>]
       ELSE IF <<"$20">> \notin DOMAIN r.config
       THEN [active_connection |-> TRUE, config |-> r.config,
             working_volume |-> working_volume, err |-> KeyError,
             sent |-> <<>>, status |-> <<>>]
       ELSE [active_connection |-> TRUE, config |-> r.config,
             working_volume |-> working_volume, err |-> a.err,
             sent |-> a.sent, status |-> a.status]

ConnectToMill(device_config, course) ==
    /\ pc = "ready"
    /\ LET c == connect_to_mill(device_config, course)
       IN /\ active_connection' = c.active_connection
          /\ config' = c.config
          /\ working_volume' = c.working_volume
          /\ call' = [NoCall EXCEPT !.op = "connect_to_mill", !.err = c.err,
                                    !.sent = c.sent, !.status = c.status]
    /\ pc' = "returned"
    /\ UNCHANGED <<pos, max_z_height, homed, tool_offsets, auto_home>>
    /\ UNCHANGED <<execVars, extVars>>

(* __enter__: connect_to_mill, set_feed_rate(5000) and, when the mill is not
   homed and auto_home is on, homing_sequence() *)
Enter(device_config, course, feed_ok, home_pos, completed, homing_feed_ok) ==
    /\ pc = "ready"
    /\ LET c == connect_to_mill(device_config, course)
           h == homing_sequence(home_pos, completed, homing_feed_ok)
           base == [NoCall EXCEPT !.op = "__enter__", !.cur = pos,
                                  !.sent = c.sent, !.status = c.status]
           feed == c.sent \o <<<<FeedRate(DefaultFeed)>>>>
       IN /\ active_connection' = c.active_connection
          /\ config' = c.config
          /\ working_volume' = c.working_volume
          /\ IF c.err # NoError
             THEN /\ call' = [base EXCEPT !.err = c.err]
                  /\ UNCHANGED <<pos, homed, max_z_height>>
             ELSE IF ~feed_ok
             THEN /\ call' = [base EXCEPT !.sent = feed,
                                          !.err = CommandExecutionError]
                  /\ UNCHANGED <<pos, homed, max_z_height>>
             ELSE IF ~homed /\ auto_home
             THEN /\ call' = [base EXCEPT !.sent = feed \o h.sent,
                                          !.err = h.err]
                  /\ pos' = h.pos
                  /\ homed' = h.homed
                  /\ max_z_height' = h.max_z_height
             ELSE /\ call' = [base EXCEPT !.sent = feed]
                  /\ UNCHANGED <<pos, homed, max_z_height>>
    /\ pc' = "returned"
    /\ UNCHANGED <<tool_offsets, auto_home>>
    /\ UNCHANGED <<execVars, extVars>>

(* disconnect (and __exit__, which calls it): close the transport; raise when
   it still reports open, else mark the connection inactive and drop the
   transport.  Without a transport the close is an AttributeError *)
Disconnect(closed) ==
    /\ pc = "ready"
    /\ IF ~active_connection
       THEN /\ call' = [NoCall EXCEPT !.op = "disconnect", !.err = AttributeError]
            /\ active_connection' = active_connection
       ELSE IF ~closed
       THEN /\ call' = [NoCall EXCEPT !.op = "disconnect", !.err = MillConnectionError]
            /\ active_connection' = active_connection
       ELSE /\ call' = [NoCall EXCEPT !.op = "disconnect"]
            /\ active_connection' = FALSE
    /\ pc' = "returned"
    /\ UNCHANGED <<pos, max_z_height, working_volume, homed, tool_offsets, config, auto_home>>
    /\ UNCHANGED <<execVars, extVars>>

(* mill.auto_home = value, as the web server sets it before entering *)
SetAutoHome(value) ==
    /\ pc = "ready"
    /\ auto_home' = value
    /\ UNCHANGED <<pos, max_z_height, working_volume, homed, tool_offsets,
                   active_connection, config, pc, call>>
    /\ UNCHANGED <<execVars, extVars>>

(* homing_sequence() called on an open session *)
HomeOnSession(home_pos, completed, feed_ok) ==
    /\ active_connection
    /\ HomingSequence(home_pos, completed, feed_ok)

(* work coordinates right after a homing cycle of a session *)
SessionHomePositions == {Coordinates(0, 0, 0), Coordinates(0, 0, -5)}

NextSession ==
    \/ \E dc \in DeviceConfigs, course \in ConnectCourses : ConnectToMill(dc, course)
    \/ \E dc \in DeviceConfigs, course \in ConnectCourses, feed_ok \in BOOLEAN,
          hp \in SessionHomePositions, completed \in BOOLEAN, hf \in BOOLEAN :
          Enter(dc, course, feed_ok, hp, completed, hf)
    \/ \E closed \in BOOLEAN : Disconnect(closed)
    \/ \E value \in BOOLEAN : SetAutoHome(value)
    \/ \E hp \in SessionHomePositions, completed \in BOOLEAN, hf \in BOOLEAN :
          HomeOnSession(hp, completed, hf)
    \/ Return

SpecSession == Init /\ [][NextSession]_vars

----------------------------------------------------------------------------
(* C9: the error:22 recovery re-executes the command at most once per
   top-level execute_command call: after its first write the command is
   written at most once more, whatever the device answers. *)
C9_AtMostOneRetry ==
    xcall.state # "none" => xcall.retries <= 1

(* C10: when the first reply to a command contains error:22, execute_command
   does not end before it has sent the feed-rate-set command, as its second
   write. *)
C10_Error22Recovered ==
    (xcall.state \in {"returned", "raised"}
        /\ xcall.first # <<>> /\ In("error:22", xcall.first[1])) =>
            Len(out) >= 2 /\ out[2] = FeedCommand

----------------------------------------------------------------------------
(* Vocabulary of the protocol engine properties *)

IsText(r) == r.kind \in {"str", "list"}

(* the text holds an error or alarm indication, in any letter case *)
Indication(text) ==
    /\ IsText(text)
    /\ \E i \in DOMAIN text.lines :
           {"error", "alarm"} \cap Needles(LowerLine(text.lines[i])) # {}

Recoverable(text) ==
    /\ IsText(text)
    /\ \E i \in DOMAIN text.lines : "error:22" \in Needles(LowerLine(text.lines[i]))

Returned == xcall.state = "returned"
Raised == xcall.state = "raised"

(* C11: execute_command never returns normally when the device response or
   the status it ended on holds an error or alarm indication, in any letter
   case, other than the recoverable error:22; it raises instead. *)
C11_ErrorOrAlarmRaises ==
    Returned =>
        /\ ~Indication(xcall.result[1])
        /\ xcall.first # <<>> =>
               (Indication(xcall.first[1]) => Recoverable(xcall.first[1]))

(* C12: whatever execute_command has put on the transport is upper-cased and
   ends with exactly one newline, except the status query "?", which goes
   out alone with no newline. *)
C12_WrittenUpperCased ==
    (xcall.state \in {"running", "returned", "raised"}) =>
        \A w \in xcall.wire :
            /\ w.text = upper(w.text)
            /\ w.newlines = IF w.text = "?" THEN 0 ELSE 1

(* a received line that states a setting: not empty, no message, no banner,
   and an "=" in it; its key and value lie on either side of its first "=" *)
IsSettingLine(l) ==
    /\ l # <<>>
    /\ l[1] # "[MSG"
    /\ \A i \in DOMAIN l : l[i] # "Grbl"
    /\ \E i \in DOMAIN l : l[i] = "="

FirstEquals(l) == CHOOSE i \in DOMAIN l : l[i] = "=" /\ \A j \in 1..(i - 1) : l[j] # "="
KeyOf(l) == strip(SubSeq(l, 1, FirstEquals(l) - 1))
ValueOf(l) == strip(SubSeq(l, FirstEquals(l) + 1, Len(l)))

SettingsReturned == Returned /\ xcall.command = "$$"

(* the lines execute_command("$$") read ahead of the last one *)
Received == SubSeq(xcall.result[1].lines, 1, Len(xcall.result[1].lines) - 1)

(* C13: execute_command("$$") stops reading at the first line equal to ok
   and returns the mapping of exactly the key=value lines received before
   it, split on the first "=" (a repeated key keeps its last value); empty
   lines, message and banner lines and lines without "=" add nothing. *)
C13_SettingsMapping ==
    SettingsReturned =>
        LET read == xcall.result[1].lines
            map == xcall.result[1].map
            settings == {i \in DOMAIN Received : IsSettingLine(Received[i])}
        IN /\ read[Len(read)] = <<"ok">>
           /\ \A i \in DOMAIN Received : Received[i] # <<"ok">>
           /\ DOMAIN map = {KeyOf(Received[i]) : i \in settings}
           /\ \A i \in settings :
                  (\A j \in settings : j > i => KeyOf(Received[j]) # KeyOf(Received[i]))
                      => map[KeyOf(Received[i])] = ValueOf(Received[i])

(* a settings block with a setting whose value holds an "=", and a line
   that states no setting *)
C13_Witness ==
    /\ SettingsReturned
    /\ \E i \in DOMAIN Received : Received[i] = rstrip(SettingN0)
    /\ \E i \in DOMAIN Received : Received[i] # <<>> /\ ~IsSettingLine(Received[i])
    /\ xcall.result[1].map[<<"$N0">>] = <<"G10L2P1X", "=", "0">>

(* C14: every execute_command("$$") ends: once called it returns or raises,
   whatever the device sends, a device that never sends the ok line
   included. *)
C14_SettingsTerminates ==
    (xcall.command = "$$" /\ xcall.state = "running") ~> (xcall.state # "running")

InWait == Running /\ Top.phase = "wait"

(* C15: the wait-until-idle loop ends: once entered it returns or raises,
   whatever statuses the device reports, a device that reports a running
   state on every poll included. *)
C15_WaitTerminates == InWait ~> ~InWait

(* C16: when the wait loop of a command timed out on a status with no Idle
   and no run, error or alarm token, execute_command returns that status to
   its caller as a normal result. *)
C16_TimeoutReturnsLastStatus ==
    (/\ xcall.timeout # <<>>
     /\ xcall.state \in {"returned", "raised"}
     /\ ~Indication(xcall.timeout[1]))
        => (Returned /\ xcall.result[1] = xcall.timeout[1])

----------------------------------------------------------------------------
(* Properties of the session *)

(* C17: after every successful connect_to_mill, working_volume is the
   travel limits derived from the settings just read from the device: the
   negated $130, $131 and $132 when $20 is 1, the fallback otherwise. *)
C17_WorkingVolumeRefreshed ==
    (Finished({"connect_to_mill"}) /\ call.err = NoError) =>
        working_volume = read_working_volume(config)

(* C18: a mill that is homed has an active connection: disconnect resets
   homed. *)
C18_HomedImpliesConnected == homed => active_connection

HomeSent(sent) == \E i \in DOMAIN sent : sent[i] = <<HomeLine>>

HomingRan(sent) ==
    \E i, j \in DOMAIN sent :
        /\ i < j
        /\ sent[i] = <<FeedRate(DefaultFeed)>>
        /\ sent[j] = <<HomeLine>>

(* C19: every __enter__ of a session that is not connected (the first entry
   and every re-entry after a disconnect) that returns has, after connecting
   and setting the default feed rate, run the homing sequence when auto_home
   is on, and has sent no homing command when auto_home is off. *)
C19_EnterHomes ==
    [][(/\ pc = "ready" /\ pc' = "returned"
        /\ call'.op = "__enter__"
        /\ call'.err = NoError
        /\ ~active_connection)
            => IF auto_home THEN HomingRan(call'.sent) ELSE ~HomeSent(call'.sent)]_vars

(* C20: after every homing sequence, max_z_height is the Z coordinate the
   mill reports after homing: that Z when it is nonzero, and 0 when it is
   zero. *)
C20_CeilingFollowsHomedZ ==
    (Finished({"homing_sequence"}) /\ call.err = NoError) =>
        max_z_height = pos.z

UnlockSent(sent) == \E i \in DOMAIN sent : sent[i] = <<UnlockLine>>

(* the first status of the connect that has just finished holds an alarm
   and no error, whether it was buffered or the answer to a query *)
AlarmAtConnect ==
    /\ Finished({"connect_to_mill"})
    /\ Len(call.status) = 2
    /\ call.status[1] \in {"buffered", "queried"}
    /\ call.status[2].kind = "str"
    /\ In("alarm", Lower(call.status[2]))
    /\ ~In("error", Lower(call.status[2]))

(* C21: a connect_to_mill whose first status indicates an alarm, be it
   from bytes already buffered or from a fresh status query, sends the
   unlock command $X and, when the device accepts it, returns normally. *)
C21_AlarmUnlockedAtConnect ==
    (AlarmAtConnect /\ call.err # CommandExecutionError) =>
        (UnlockSent(call.sent) /\ call.err = NoError)

(* C22: a connect_to_mill during which the reading of the settings from
   the device fails does not fail because of that read: it does not raise
   the configuration error. *)
C22_SettingsReadFailureTolerated ==
    (Finished({"connect_to_mill"}) /\ call.status = <<"settings", "failed">>) =>
        call.err # MillConfigError

----------------------------------------------------------------------------
(* The discovery: locate_mill_over_serial, one candidate (port, baud rate)
   per step.  A connection is named by its candidate; loc.open holds the
   connections that are open, loc.ser_mill the one the local variable
   ser_mill refers to (<<>>: the unopened serial.Serial() of the start). *)

MaxPasses == 2       \* passes over the candidate list that are counted

baudrates == <<115200, 9600>>
priority_port == "/dev/cu.usbserial-2130"

GrblLine == "Grbl 1.1h ['$' for help]\r\n"
NoiseLine == "[MSG:Pgm End]\r\n"

(* what get_ports() lists, in the order of the operating system *)
ListedPorts ==
    {<<>>, <<"/dev/ttyUSB0">>, <<"/dev/ttyUSB0", "/dev/ttyUSB1">>,
     <<priority_port, "/dev/ttyUSB0">>}

(* the port argument of the caller *)
PortArguments == {None, "/dev/ttyUSB1"}

(* ports = [priority_port] and then the listed devices other than it *)
candidate_ports(listed) ==
    <<priority_port>> \o SelectSeq(listed, LAMBDA p : p # priority_port)

(* what the device behind a candidate does: constructing the connection
   raises; the connection does not report open; a write or read on the open
   connection raises; readlines() returns lines *)
Responses ==
    {<<>>, <<NoiseLine>>, <<GrblLine>>, <<OkLine>>, <<Error9Line>>, <<IdleLine>>,
     <<NoiseLine, OkLine>>}

CandidateOutcomes ==
    {[kind |-> k, lines |-> <<>>] : k \in {"raise_open", "not_open", "raise_io"}}
    \cup {[kind |-> "response", lines |-> r] : r \in Responses}

valid_response(statuses) ==
    \E n \in DOMAIN statuses :
        {"Grbl", "ok", "error", "Idle"} \cap Needles(statuses[n]) # {}

(* the loop variables after a candidate that was not accepted: the next baud
   rate, else the next port, else (while not found) the list again *)
next_candidate(l) ==
    IF l.b < Len(baudrates) THEN [l EXCEPT !.b = l.b + 1]
    ELSE IF l.i < Len(l.ports) THEN [l EXCEPT !.i = l.i + 1, !.b = 1]
    ELSE [l EXCEPT !.i = 1, !.b = 1, !.passes = Min(l.passes + 1, MaxPasses)]

(* a rejected candidate that is left open *)
try_candidate_no_close(l, outcome) ==
    LET cand == <<l.ports[l.i], baudrates[l.b]>>
        t == [l EXCEPT !.tried = IF l.passes = 0 THEN Append(l.tried, cand) ELSE l.tried]
    IN CASE outcome.kind = "raise_open" ->
                next_candidate([t EXCEPT !.open = l.open \ {l.ser_mill}])
         [] outcome.kind = "not_open" ->
                next_candidate([t EXCEPT !.ser_mill = cand])
         [] outcome.kind = "raise_io" ->
                next_candidate([t EXCEPT !.ser_mill = cand, !.open = l.open \ {cand}])
         [] outcome.kind = "response" /\ valid_response(outcome.lines) ->
                [t EXCEPT !.ser_mill = cand, !.open = l.open \cup {cand},
                          !.found_on = cand[1], !.response = outcome.lines,
                          !.phase = "returned"]
         [] OTHER ->
                next_candidate([t EXCEPT !.ser_mill = cand, !.open = l.open \cup {cand}])

(* one turn of the inner loop: the candidate is opened and probed; it is
   accepted and kept open, or it is closed and the loop goes on *)
try_candidate(l, outcome) ==
    LET cand == <<l.ports[l.i], baudrates[l.b]>>
        t == [l EXCEPT !.tried = IF l.passes = 0 THEN Append(l.tried, cand) ELSE l.tried]
    IN CASE outcome.kind = "raise_open" ->
                next_candidate([t EXCEPT !.open = l.open \ {l.ser_mill}])
         [] outcome.kind = "not_open" ->
                next_candidate([t EXCEPT !.ser_mill = cand])
         [] outcome.kind = "raise_io" ->
                next_candidate([t EXCEPT !.ser_mill = cand, !.open = l.open \ {cand}])
         [] outcome.kind = "response" /\ valid_response(outcome.lines) ->
                [t EXCEPT !.ser_mill = cand, !.open = l.open \cup {cand},
                          !.found_on = cand[1], !.response = outcome.lines,
                          !.phase = "returned"]
         [] OTHER ->
                next_candidate([t EXCEPT !.ser_mill = cand, !.open = l.open \ {cand}])

(* locate_mill_over_serial(port) up to its loop: the candidate list.  port
   and the content of mill_port.txt are recorded as the call found them *)
LocateStart(port, listed) ==
    /\ loc.phase = "idle"
    /\ loc' = [NoLoc EXCEPT !.phase = "scanning", !.port = port,
                            !.known = mill_port_txt,
                            !.ports = candidate_ports(listed)]
    /\ UNCHANGED <<tools_json, mill_port_txt, hybrid>>
    /\ UNCHANGED <<planVars, sessVars, execVars>>

(* one candidate; on acceptance the port is written to mill_port.txt and
   the function returns *)
TryCandidate(outcome) ==
    /\ loc.phase = "scanning"
    /\ loc' = try_candidate(loc, outcome)
    /\ mill_port_txt' = IF loc'.phase = "returned" THEN loc'.found_on ELSE mill_port_txt
    /\ UNCHANGED <<tools_json, hybrid>>
    /\ UNCHANGED <<planVars, sessVars, execVars>>

(* disconnect(): the connection of the discovery is closed *)
CloseFound ==
    /\ loc.phase = "returned"
    /\ loc' = NoLoc
    /\ UNCHANGED <<tools_json, mill_port_txt, hybrid>>
    /\ UNCHANGED <<planVars, sessVars, execVars>>

NextLocate ==
    \/ \E port \in PortArguments, listed \in ListedPorts : LocateStart(port, listed)
    \/ \E outcome \in CandidateOutcomes : TryCandidate(outcome)
    \/ CloseFound

SpecLocate == Init /\ [][NextLocate]_vars

----------------------------------------------------------------------------
(* Properties of the discovery *)

(* C23: a discovery that has made one full pass over every candidate port
   at both baud rates without accepting a candidate has failed with
   MillConnectionError: it is not scanning on, and it has not returned. *)
C23_FullPassFails == loc.passes >= 1 => loc.phase = "failed"

(* the port the discovery should start with: the one the caller gave, else
   the one the last discovery persisted *)
Preferred == IF loc.port # None THEN loc.port ELSE loc.known

(* C24: a discovery tries the caller-preferred or else the persisted port
   first, and every port at 115200 baud before 9600. *)
C24_PreferredPortFirst ==
    loc.phase # "idle" =>
        /\ Preferred # "" => Head(loc.ports) = Preferred
        /\ \A k \in DOMAIN loc.tried :
               loc.tried[k][2] = 9600 =>
                   /\ k > 1
                   /\ loc.tried[k - 1] = <<loc.tried[k][1], 115200>>

(* C25: when locate_mill_over_serial has returned, the accepted response
   held one of the tokens Grbl, ok, error, Idle; the returned connection is
   the accepted candidate's, on the port returned, and it is the one and
   only connection that is open. *)
C25_OneOpenConnection ==
    loc.phase = "returned" =>
        /\ valid_response(loc.response)
        /\ loc.ser_mill[1] = loc.found_on
        /\ loc.open = {loc.ser_mill}

(* a discovery has returned with its second port, after the candidates of
   the first were opened and rejected or raised *)
C25_Witness ==
    /\ loc.phase = "returned"
    /\ loc.i = 2
    /\ Len(loc.tried) >= 3
    /\ loc.open = {loc.ser_mill}

----------------------------------------------------------------------------
(* The tool store: ToolManager over tools.json.  tool_offsets maps a tool
   name to its offset; tools_json holds the records save_tools() wrote. *)

MaxOffset == 5       \* an offset axis Mill.update_offset may reach, in either direction

ValueError == "ValueError"

ToolNames == {"center", "Center", "pipette", "test_tool"}
OffsetInputs == {Coordinates(0, 0, 0), Coordinates(10, 10, 10)}
OffsetDeltas == {Coordinates(5, 5, 5), Coordinates(-5, -5, -5)}

(* ToolOffset.from_dict over the records of the file, keyed by name *)
load_tools(store) ==
    [name \in {item.name : item \in store} |->
        LET item == CHOOSE r \in store : r.name = name
        IN Coordinates(item.x, item.y, item.z)]

__default_tool == [n \in {"center"} |-> Coordinates(0, 0, 0)]

(* an update_tool that does not write the store *)
update_tool_unsaved(tools, store, name, offset) ==
    IF name \in DOMAIN tools
    THEN [tool_offsets |-> [tools EXCEPT ![name] = offset],
          tools_json |-> store, err |-> NoError]
    ELSE [tool_offsets |-> tools, tools_json |-> store, err |-> ValueError]

(* the tool operations: the in-memory set and the store they leave, and the
   error they raise *)
update_tool(tools, store, name, offset) ==
    IF name \in DOMAIN tools
    THEN LET new == [tools EXCEPT ![name] = offset]
         IN [tool_offsets |-> new, tools_json |-> save_tools(new), err |-> NoError]
    ELSE [tool_offsets |-> tools, tools_json |-> store, err |-> ValueError]

add_tool(tools, store, name, offset) ==
    IF name \in DOMAIN tools
    THEN LET u == update_tool(tools, store, name, offset)
         IN [u EXCEPT !.tools_json = save_tools(u.tool_offsets)]
    ELSE LET new == [n \in DOMAIN tools \cup {name} |->
                        IF n = name THEN offset ELSE tools[n]]
         IN [tool_offsets |-> new, tools_json |-> save_tools(new), err |-> NoError]

delete_tool(tools, store, name) ==
    IF name \in DOMAIN tools
    THEN LET new == [n \in DOMAIN tools \ {name} |-> tools[n]]
         IN [tool_offsets |-> new, tools_json |-> save_tools(new), err |-> NoError]
    ELSE [tool_offsets |-> tools, tools_json |-> store, err |-> ValueError]

(* Mill.update_offset: get_offset of an unknown tool is an AttributeError *)
update_offset(tools, store, tool, delta) ==
    IF tool \notin DOMAIN tools
    THEN [tool_offsets |-> tools, tools_json |-> store, err |-> AttributeError]
    ELSE update_tool(tools, store, tool,
                     Coordinates(tools[tool].x + delta.x, tools[tool].y + delta.y,
                                 tools[tool].z + delta.z))

ToolCall(op, name, r) ==
    /\ pc = "ready"
    /\ tool_offsets' = r.tool_offsets
    /\ tools_json' = r.tools_json
    /\ call' = [NoCall EXCEPT !.op = op, !.tool = name, !.err = r.err]
    /\ pc' = "returned"
    /\ UNCHANGED <<pos, max_z_height, working_volume, homed, mill_port_txt, loc, hybrid>>
    /\ UNCHANGED <<sessVars, execVars>>

AddTool(name, offset) ==
    ToolCall("add_tool", name, add_tool(tool_offsets, tools_json, name, offset))

UpdateTool(name, offset) ==
    ToolCall("update_tool", name, update_tool(tool_offsets, tools_json, name, offset))

DeleteTool(name) ==
    ToolCall("delete_tool", name, delete_tool(tool_offsets, tools_json, name))

UpdateOffset(tool, delta) ==
    /\ tool \in DOMAIN tool_offsets =>
           /\ tool_offsets[tool].x + delta.x \in -MaxOffset..MaxOffset
           /\ tool_offsets[tool].y + delta.y \in -MaxOffset..MaxOffset
           /\ tool_offsets[tool].z + delta.z \in -MaxOffset..MaxOffset
    /\ ToolCall("update_offset", tool, update_offset(tool_offsets, tools_json, tool, delta))

(* ToolManager(): the tools of the file; when the file holds none, the
   default tool, which is saved *)
ToolManagerInit ==
    /\ pc = "ready"
    /\ LET loaded == load_tools(tools_json)
       IN IF DOMAIN loaded = {}
          THEN /\ tool_offsets' = __default_tool
               /\ tools_json' = save_tools(__default_tool)
          ELSE /\ tool_offsets' = loaded
               /\ UNCHANGED tools_json
    /\ call' = [NoCall EXCEPT !.op = "__init__"]
    /\ pc' = "returned"
    /\ UNCHANGED <<pos, max_z_height, working_volume, homed, mill_port_txt, loc, hybrid>>
    /\ UNCHANGED <<sessVars, execVars>>

NextTools ==
    \/ \E name \in ToolNames, offset \in OffsetInputs : AddTool(name, offset)
    \/ \E name \in ToolNames, offset \in OffsetInputs : UpdateTool(name, offset)
    \/ \E name \in ToolNames : DeleteTool(name)
    \/ \E tool \in ToolNames, delta \in OffsetDeltas : UpdateOffset(tool, delta)
    \/ ToolManagerInit
    \/ Return

SpecTools == Init /\ [][NextTools]_vars

----------------------------------------------------------------------------
(* Properties of the tool store *)

ToolOps == {"add_tool", "update_tool", "delete_tool", "update_offset"}

(* C26: every add, update or delete of a tool that returns normally leaves
   in the store exactly the in-memory tool set, names and offsets; an
   update or a delete of an unknown tool raises and changes neither the
   in-memory set nor the store. *)
C26_StoreFollowsMemory ==
    [][(/\ pc = "ready" /\ pc' = "returned"
        /\ call'.op \in ToolOps)
            => /\ call'.err = NoError => tools_json' = save_tools(tool_offsets')
               /\ (/\ call'.op # "add_tool"
                   /\ call'.tool \notin DOMAIN tool_offsets)
                      => /\ call'.err # NoError
                         /\ tool_offsets' = tool_offsets
                         /\ tools_json' = tools_json]_vars

(* an update of a known tool has returned, with the new offset in memory
   and in the store, beside another tool *)
C26_Witness ==
    /\ Finished({"update_tool"})
    /\ call.err = NoError
    /\ call.tool = "pipette"
    /\ tool_offsets["pipette"] = Coordinates(10, 10, 10)
    /\ to_dict("pipette", Coordinates(10, 10, 10)) \in tools_json
    /\ Cardinality(tools_json) >= 2

(* C27: in every state reached by loading the tool store and adding,
   updating and deleting tools, a tool named "center" exists. *)
C27_CenterExists == "center" \in DOMAIN tool_offsets

(* str.lower() of a tool name *)
LowerName(name) == IF name = "Center" THEN "center" ELSE name

(* C28: tool names are case-insensitive: names that differ only in letter
   case refer to one tool record, so no two records of the in-memory set
   have names that are equal up to case. *)
C28_NamesCaseInsensitive ==
    \A n, m \in DOMAIN tool_offsets : LowerName(n) = LowerName(m) => n = m

----------------------------------------------------------------------------
(* The position report: Mill.current_coordinates over the texts it reads.
   A text is the sequence of its pieces, as in the settings block; the
   numbers of a report are texts that float() converts.  round(_, 3) and
   the rounding of Coordinates leave the integers of the model unchanged. *)

IndexError == "IndexError"
LocationNotFound == "LocationNotFound"

(* the device's rendering of a coordinate, three decimals *)
FormatNumber(n) ==
    CASE n = 0 -> "0.000"
      [] n = -50 -> "-50.000"
      [] n = -100 -> "-100.000"

(* a status report "<Idle|WPos:x,y,z|FS:0,0>\r\n", tag being WPos: or MPos: *)
Report(tag, p) ==
    <<"<", "Idle", "|", tag, FormatNumber(p.x), ",", FormatNumber(p.y), ",",
      FormatNumber(p.z), "|", "FS:0,0", ">", CRLF>>

(* a report cut off inside its triple *)
Truncated(tag, p) == SubSeq(Report(tag, p), 1, 7)

OkText == <<"ok", CRLF>>
AlarmText == <<"ALARM:1", CRLF>>
ErrorText == <<"error:9", CRLF>>

ReportedPositions == {Coordinates(-100, -100, -50), Coordinates(0, 0, 0)}
Tags == {"WPos:", "MPos:"}

(* the reads of one call: the answer to the "?" and the reads that follow;
   a read beyond them times out and returns the empty text *)
CoordinateReads ==
    {<<Report(tag, p)>> : tag \in Tags, p \in ReportedPositions}
    \cup {<<OkText, Report(tag, Coordinates(-100, -100, -50))>> : tag \in Tags}
    \cup {<<OkText, OkText, OkText, OkText \o Report("MPos:", Coordinates(0, 0, 0))>>,
          <<Truncated("MPos:", Coordinates(0, 0, 0))>>,
          <<OkText, OkText, OkText, OkText>>,
          <<AlarmText>>, <<OkText, ErrorText>>, <<OkText>>, <<>>}

ReadAt(reads, n) == IF n \in DOMAIN reads THEN reads[n] ELSE <<>>

(* `needle in status.lower()` *)
InLower(needle, status) ==
    \E n \in DOMAIN status :
        \/ needle = "alarm" /\ status[n] = "ALARM:1"
        \/ needle = "error" /\ status[n] = "error:9"
        \/ needle = "ok" /\ status[n] = "ok"

(* the texts [\d.-]+ matches whole *)
IsNumber(piece) == piece \in {"0.000", "-50.000", "-100.000", "1.000"}

(* pattern.search(status): the groups of the first tag followed by three
   numbers with commas between, <<>> when there is none *)
pattern_search(tag, status) ==
    LET hits == {n \in 1..(Len(status) - 5) :
                    /\ status[n] = tag
                    /\ IsNumber(status[n + 1]) /\ status[n + 2] = ","
                    /\ IsNumber(status[n + 3]) /\ status[n + 4] = ","
                    /\ IsNumber(status[n + 5])}
    IN IF hits = {} THEN <<>>
       ELSE LET n == CHOOSE h \in hits : \A g \in hits : h <= g
            IN <<status[n + 1], status[n + 3], status[n + 5]>>

(* the loop that waits for a text starting with "<": status[0] of an empty
   text is an IndexError *)
RECURSIVE status_loop(_, _, _, _)
status_loop(status, reads, n, attempts) ==
    IF status = <<>>
    THEN [err |-> IndexError, status |-> status]
    ELSE IF Head(status) # "<" /\ attempts < 3
    THEN IF InLower("alarm", status) \/ InLower("error", status)
         THEN [err |-> StatusReturnError, status |-> status]
         ELSE status_loop(ReadAt(reads, n + 1), reads, n + 1, attempts + 1)
    ELSE [err |-> NoError, status |-> status]

(* the pull-off added in both report modes *)
mill_center_pull_off_always(status, tag, homing_pull_off) ==
    LET match == pattern_search(tag, status)
    IN IF match = <<>> THEN <<>>
       ELSE <<Coordinates(float(<<match[1]>>) + homing_pull_off,
                          float(<<match[2]>>) + homing_pull_off,
                          float(<<match[3]>>) + homing_pull_off)>>

(* mill_center: the triple of the report, the homing pull-off added to each
   axis of an MPos triple; <<>> when the pattern does not match *)
mill_center(status, tag, homing_pull_off) ==
    LET match == pattern_search(tag, status)
        shift == IF tag = "MPos:" THEN homing_pull_off ELSE 0
    IN IF match = <<>> THEN <<>>
       ELSE <<Coordinates(float(<<match[1]>>) + shift,
                          float(<<match[2]>>) + shift,
                          float(<<match[3]>>) + shift)>>

(* the offsets added to the mill centre, as the planner does for a target *)
tool_head_offsets_added(center, offsets) ==
    Coordinates(center.x + offsets.x, center.y + offsets.y, center.z + offsets.z)

(* tool_head: the position of the tool head *)
tool_head(center, offsets) ==
    Coordinates(center.x - offsets.x, center.y - offsets.y, center.z - offsets.z)

(* current_coordinates(tool, tool_only): what it returns, the error it
   raises and the text it worked on *)
coordinates_of(reads, settings, tool, tool_only) ==
    LET s == status_loop(ReadAt(reads, 1), reads, 1, 0)
        fail(e) == [ret |-> <<>>, err |-> e, status |-> <<s.status>>]
    IN IF s.err # NoError THEN fail(s.err)
       ELSE IF <<"$10">> \notin DOMAIN settings THEN fail(KeyError)
       ELSE IF int(settings[<<"$10">>]) \notin {0, 1, 2, 3} THEN fail(ValueError)
       ELSE IF <<"$27">> \notin DOMAIN settings THEN fail(KeyError)
       ELSE LET status_mode == int(settings[<<"$10">>])
                tag == IF status_mode \in {0, 2} THEN "WPos:" ELSE "MPos:"
                center == mill_center(s.status, tag, float(settings[<<"$27">>]))
            IN IF center = <<>> THEN fail(LocationNotFound)
               ELSE IF tool = None
               THEN [ret |-> center, err |-> NoError, status |-> <<s.status>>]
               ELSE IF tool \notin DOMAIN tool_offsets THEN fail(ValueError)
               ELSE LET head == tool_head(center[1], get_offset(tool))
                    IN [ret |-> IF tool_only THEN <<head>> ELSE <<center[1], head>>,
                        err |-> NoError, status |-> <<s.status>>]

(* the settings current_coordinates reads: $10, the report mode, and $27,
   the homing pull-off *)
ReportSettings(status_mode, homing_pull_off) ==
    [k \in {<<"$10">>, <<"$27">>} |->
        IF k = <<"$10">> THEN <<status_mode>> ELSE <<homing_pull_off>>]

ReportConfigs == {ReportSettings(m, "1.000") : m \in {"0", "1", "2", "3", "255"}}

CoordinateTools == {None, "center", "test_tool", "gripper"}

(* read_mill_config() on a connected device *)
ReadMillConfig(device_config) ==
    /\ pc = "ready"
    /\ config' = device_config
    /\ UNCHANGED <<planVars, execVars, extVars, active_connection, auto_home>>

CurrentCoordinates(reads, tool, tool_only) ==
    /\ pc = "ready"
    /\ LET c == coordinates_of(reads, config, tool, tool_only)
       IN call' = [NoCall EXCEPT !.op = "current_coordinates", !.tool = tool,
                                 !.safe = tool_only,
                                 !.ret = c.ret, !.err = c.err, !.status = c.status]
    /\ pc' = "returned"
    /\ UNCHANGED <<pos, max_z_height, working_volume, homed, tool_offsets>>
    /\ UNCHANGED <<execVars, sessVars, extVars>>

NextCoordinates ==
    \/ \E device_config \in ReportConfigs : ReadMillConfig(device_config)
    \/ \E reads \in CoordinateReads, tool \in CoordinateTools, tool_only \in BOOLEAN :
          CurrentCoordinates(reads, tool, tool_only)
    \/ Return

SpecCoordinates == Init /\ [][NextCoordinates]_vars

----------------------------------------------------------------------------
(* Properties of the position report *)

(* the settings name a report mode and a pull-off *)
ReportConfigured ==
    /\ {<<"$10">>, <<"$27">>} \subseteq DOMAIN config
    /\ config[<<"$10">>] \in {<<"0">>, <<"1">>, <<"2">>, <<"3">>}

(* the call that has just returned worked on a text that ends with the
   report of position p under the tag *)
Reported(tag, p) ==
    /\ Len(call.status) = 1
    /\ \E prefix \in {<<>>, OkText} : call.status[1] = prefix \o Report(tag, p)

(* the mill centre of the value returned: with a tool and tool_only the
   tool head is all that is returned *)
Plus(p, d) == Coordinates(p.x + d, p.y + d, p.z + d)

Returns(center) ==
    IF call.tool = None THEN call.ret = <<center>>
    ELSE IF call.safe THEN call.ret = <<tool_head(center, tool_offsets[call.tool])>>
    ELSE call.ret = <<center, tool_head(center, tool_offsets[call.tool])>>

(* C29: a current_coordinates that returns gives, in a machine-coordinate
   report mode, the reported MPos triple with the homing pull-off $27
   added to each axis and, in a work-coordinate mode, the reported WPos
   triple unchanged; with a tool, that tool's offset is subtracted from
   each axis. *)
C29_ReportedCoordinates ==
    (Finished({"current_coordinates"}) /\ call.err = NoError) =>
        /\ ReportConfigured
        /\ \E tag \in Tags, p \in ReportedPositions : Reported(tag, p)
        /\ \A p \in ReportedPositions :
              /\ Reported("MPos:", p) =>
                    /\ int(config[<<"$10">>]) \in {1, 3}
                    /\ Returns(Plus(p, float(config[<<"$27">>])))
              /\ Reported("WPos:", p) =>
                    /\ int(config[<<"$10">>]) \in {0, 2}
                    /\ Returns(p)

(* a machine-coordinate report was read for a tool with a nonzero offset *)
C29_Witness ==
    /\ Finished({"current_coordinates"})
    /\ call.err = NoError
    /\ call.tool = "test_tool"
    /\ Reported("MPos:", Coordinates(-100, -100, -50))
    /\ call.ret = <<Coordinates(-109, -109, -59)>>

(* C30: a current_coordinates that fails although the settings name a
   report mode, the tool is known and no text it read held an error or
   alarm token (the empty reply included) fails with LocationNotFound. *)
C30_OnlyLocationNotFound ==
    (/\ Finished({"current_coordinates"})
     /\ ReportConfigured
     /\ call.tool \in DOMAIN tool_offsets \cup {None}
     /\ call.err \notin {NoError, StatusReturnError})
        => call.err = LocationNotFound

----------------------------------------------------------------------------
(* current_status on its own, with the interactive_mode attribute either
   way.  The call record keeps the inputs: safe the attribute, targets the
   reads, segs the buffered lines, reads the number of "?" queries. *)

(* the reads of one call: texts that are blank or the bare ok, then
   perhaps a reply *)
QuietReads ==
    {[i \in 1..(StatusAttempts + 1) |-> IF i \in oks THEN Str(<<"ok">>) ELSE EmptyStr] :
        oks \in {{}, {1}, {2, 3}, {1, 2, 3, 4, 5}}}

StatusCallReads == StatusReads \cup QuietReads

StatusLineLists == LineLists \cup {<<AlarmLine>>, <<"[MSG:Pgm End]\r\n", Error9Line>>}

CurrentStatus(interactive, reads, lines) ==
    /\ pc = "ready"
    /\ LET s == current_status(interactive, reads, lines)
       IN call' = [NoCall EXCEPT !.op = "current_status", !.safe = interactive,
                                 !.targets = reads, !.segs = lines,
                                 !.reads = s.queries, !.err = s.raise,
                                 !.ret = IF s.raise = NoError THEN <<s.status>> ELSE <<>>]
    /\ pc' = "returned"
    /\ UNCHANGED <<pos, max_z_height, working_volume, homed, tool_offsets>>
    /\ UNCHANGED <<execVars, sessVars, extVars>>

NextStatus ==
    \/ \E interactive \in BOOLEAN, reads \in StatusCallReads, lines \in StatusLineLists :
          CurrentStatus(interactive, reads, lines)
    \/ Return

SpecStatus == Init /\ [][NextStatus]_vars

----------------------------------------------------------------------------
(* Properties of current_status *)

(* no read of the call gave a status text: every read was blank or the bare
   ok, the last one blank *)
NoStatusText ==
    /\ \A i \in DOMAIN call.targets : call.targets[i] \in {EmptyStr, Str(<<"ok">>)}
    /\ call.targets[Len(call.targets)] = EmptyStr

(* a buffered line holds an error or an alarm *)
TokenBuffered == \E i \in DOMAIN call.segs : call.segs[i] \in {Error9Line, Error22Line, AlarmLine}

(* C31: a current_status call sends at most 5 status queries; when no
   status text is obtained and no buffered line remains, or a buffered line
   holds an alarm or error token, it returns the empty text in interactive
   mode and raises StatusReturnError otherwise. *)
C31_StatusQueriesBounded ==
    Finished({"current_status"}) =>
        /\ call.reads <= 5
        /\ (NoStatusText /\ (call.segs = <<>> \/ TokenBuffered)) =>
               IF call.safe
               THEN call.err = NoError /\ call.ret = <<EmptyStr>>
               ELSE call.err = StatusReturnError

(* an interactive call sent its five queries, got no text and found an
   alarm among the buffered lines *)
C31_Witness ==
    /\ Finished({"current_status"})
    /\ call.safe
    /\ call.reads = 5
    /\ NoStatusText
    /\ call.segs = <<AlarmLine>>
    /\ call.ret = <<EmptyStr>>

----------------------------------------------------------------------------
(* The charge_hybrid workflow of the potentiostat executor, one loop turn
   per step.  Voltages are integers (tenths of a volt); hybrid.log is the
   sequence of the backend calls made, a run_hybrid with its result. *)

MaxRepeats == 3      \* the largest max_repeats parameter

stop_v_min == -10    \* DEFAULT_PARAMETERS / the parameters of the experiment
finish_v == 5

Metrics(v_min, v_max, v_end) == [meas_v_min |-> v_min, meas_v_max |-> v_max, meas_v_end |-> v_end]

(* what run_hybrid can return *)
HybridOutcomes ==
    {Metrics(-2, 5, 4), Metrics(-2, 6, 5), Metrics(-2, 7, 6), Metrics(-10, 5, 4),
     Metrics(-12, 3, 2)}

(* a stop test without the lower threshold *)
should_stop_upper_only(h, metrics, elapsed) ==
    \/ metrics.meas_v_max >= h.stop_v_max
    \/ h.voltage_finish /\ metrics.meas_v_end * h.i_sign >= finish_v * h.i_sign
    \/ elapsed

(* the stop flag after a run_hybrid: a threshold is crossed, the finish
   voltage is reached, or the duration has elapsed *)
should_stop(h, metrics, elapsed) ==
    \/ metrics.meas_v_min <= stop_v_min
    \/ metrics.meas_v_max >= h.stop_v_max
    \/ h.voltage_finish /\ metrics.meas_v_end * h.i_sign >= finish_v * h.i_sign
    \/ elapsed

BackendCall(name) == [call |-> name, result |-> <<>>]

(* _execute_charge_hybrid up to its loop *)
HybridStart(max_repeats, stop_v_max, voltage_finish, i_sign, conditioning) ==
    /\ hybrid.phase = "idle"
    /\ hybrid' = [NoHybrid EXCEPT
                     !.phase = "loop", !.max_repeats = max_repeats,
                     !.stop_v_max = stop_v_max, !.voltage_finish = voltage_finish,
                     !.i_sign = i_sign,
                     !.log = IF conditioning
                             THEN <<BackendCall("run_conditioning_hybrid")>> ELSE <<>>]
    /\ UNCHANGED <<tools_json, mill_port_txt, loc>>
    /\ UNCHANGED <<planVars, sessVars, execVars>>

(* one turn of the loop: run_hybrid, the stop test and, on stop,
   shutdown_pstat and the break *)
HybridTurn(metrics, elapsed) ==
    /\ hybrid.phase = "loop"
    /\ hybrid.index < hybrid.max_repeats
    /\ LET ran == Append(hybrid.log, [call |-> "run_hybrid", result |-> <<metrics>>])
       IN IF should_stop(hybrid, metrics, elapsed)
          THEN hybrid' = [hybrid EXCEPT !.log = Append(ran, BackendCall("shutdown_pstat")),
                                        !.phase = "finish"]
          ELSE hybrid' = [hybrid EXCEPT !.log = ran, !.index = hybrid.index + 1]
    /\ UNCHANGED <<tools_json, mill_port_txt, loc>>
    /\ UNCHANGED <<planVars, sessVars, execVars>>

(* after the loop: the finish step when voltage_finish is set *)
HybridFinish ==
    /\ \/ hybrid.phase = "finish"
       \/ hybrid.phase = "loop" /\ hybrid.index >= hybrid.max_repeats
    /\ hybrid' = [hybrid EXCEPT
                     !.phase = "done",
                     !.log = IF hybrid.voltage_finish
                             THEN hybrid.log \o <<BackendCall("sleep"),
                                                  BackendCall("run_pstatic_finish")>>
                             ELSE hybrid.log]
    /\ UNCHANGED <<tools_json, mill_port_txt, loc>>
    /\ UNCHANGED <<planVars, sessVars, execVars>>

HybridReturn ==
    /\ hybrid.phase = "done"
    /\ hybrid' = NoHybrid
    /\ UNCHANGED <<tools_json, mill_port_txt, loc>>
    /\ UNCHANGED <<planVars, sessVars, execVars>>

NextHybrid ==
    \/ \E max_repeats \in 0..MaxRepeats, stop_v_max \in {6, 10},
          voltage_finish \in BOOLEAN, i_sign \in {-1, 1}, conditioning \in BOOLEAN :
          HybridStart(max_repeats, stop_v_max, voltage_finish, i_sign, conditioning)
    \/ \E metrics \in HybridOutcomes, elapsed \in BOOLEAN : HybridTurn(metrics, elapsed)
    \/ HybridFinish
    \/ HybridReturn

SpecHybrid == Init /\ [][NextHybrid]_vars

----------------------------------------------------------------------------
(* Properties of the charge_hybrid workflow *)

RunsOf(log) == {n \in DOMAIN log : log[n].call = "run_hybrid"}

Crossed(metrics) ==
    \/ metrics.meas_v_max >= hybrid.stop_v_max
    \/ metrics.meas_v_min <= stop_v_min

(* C32: in the charge_hybrid workflow, a run_hybrid whose result has
   meas_v_max >= stop_v_max or meas_v_min <= stop_v_min is followed at once
   by shutdown_pstat and by no further run_hybrid, and run_hybrid is called
   at most max_repeats times. *)
C32_HybridStopsAtThreshold ==
    /\ Cardinality(RunsOf(hybrid.log)) <= hybrid.max_repeats
    /\ \A n \in RunsOf(hybrid.log) :
          Crossed(hybrid.log[n].result[1]) =>
              /\ n < Len(hybrid.log)
              /\ hybrid.log[n + 1].call = "shutdown_pstat"
              /\ \A m \in RunsOf(hybrid.log) : m <= n

(* the second run crossed the lower threshold only, with repeats left *)
C32_Witness ==
    /\ hybrid.max_repeats = 3
    /\ Cardinality(RunsOf(hybrid.log)) = 2
    /\ \E n \in RunsOf(hybrid.log) :
          /\ hybrid.log[n].result[1].meas_v_min <= stop_v_min
          /\ hybrid.log[n].result[1].meas_v_max < hybrid.stop_v_max
          /\ n < Len(hybrid.log)
          /\ hybrid.log[n + 1].call = "shutdown_pstat"

----------------------------------------------------------------------------
(* The protocol compiler: Compiler.compile over PathPlanner.plan_path.  A
   step is a record; the call record keeps the actions in targets, the
   steps appended for each action in segs and the compiled steps in ret. *)

MaxActions == 2      \* actions of an experiment sequence

deck_safe_z_height == -5

(* DeckConfig.locations *)
locations ==
    [n \in {"home", "well_A1", "well_A2", "above_A1", "park"} |->
        CASE n = "home" -> Coordinates(0, 0, 0)
          [] n = "well_A1" -> Coordinates(-10, -10, -20)
          [] n = "well_A2" -> Coordinates(-20, -10, -20)
          [] n = "above_A1" -> Coordinates(-10, -10, -5)
          [] n = "park" -> Coordinates(0, 0, -10)]

MoveAction(target_location, z_offset) ==
    [action_type |-> "move", target_location |-> target_location, z_offset |-> z_offset]

ImageAction(target_location) ==
    [action_type |-> "image", target_location |-> target_location, z_offset |-> 0]

LocationNames == DOMAIN locations \cup {"well_Z9"}

SequenceActions ==
    {MoveAction(n, dz) : n \in LocationNames, dz \in {0, 5}}
    \cup {ImageAction(n) : n \in LocationNames}

(* a plan_path that travels at the start height *)
plan_path_no_lift(start, end) ==
    LET moving_xy == start.x # end.x \/ start.y # end.y
        travel == IF moving_xy THEN <<Coordinates(end.x, end.y, start.z)>> ELSE <<>>
        lower == IF start.z # end.z THEN <<Coordinates(end.x, end.y, end.z)>> ELSE <<>>
    IN IF start = end THEN <<>> ELSE travel \o lower

(* plan_path: the waypoints from start to end: lift, travel, lower *)
plan_path(start, end) ==
    LET safe_z == deck_safe_z_height
        moving_xy == start.x # end.x \/ start.y # end.y
        lifted == moving_xy /\ start.z < safe_z
        current_z == IF lifted THEN safe_z ELSE start.z
        lift == IF lifted THEN <<Coordinates(start.x, start.y, safe_z)>> ELSE <<>>
        travel == IF moving_xy THEN <<Coordinates(end.x, end.y, current_z)>> ELSE <<>>
        lower == IF current_z # end.z THEN <<Coordinates(end.x, end.y, end.z)>> ELSE <<>>
        waypoints == lift \o travel \o lower
    IN IF start.x = end.x /\ start.y = end.y /\ start.z = end.z THEN <<>>
       ELSE IF ~moving_xy /\ waypoints = <<>> /\ start.z # end.z
       THEN <<Coordinates(end.x, end.y, end.z)>>
       ELSE waypoints

MoveStep(wp) == [type |-> "move", x |-> wp.x, y |-> wp.y, z |-> wp.z]
ImageStep(location) == [type |-> "image", x |-> 0, y |-> 0, z |-> 0, location |-> location]

(* the position an action aims at *)
target_pos(action) ==
    LET target_base == locations[action.target_location]
    IN IF action.action_type = "move"
       THEN Coordinates(target_base.x, target_base.y, target_base.z + action.z_offset)
       ELSE target_base

(* the loop of compile over the actions: the steps appended for each
   action, or the ValueError of an unknown location *)
RECURSIVE compile_loop(_, _, _)
compile_loop(actions, current_pos, segs) ==
    IF actions = <<>> THEN [segs |-> segs, err |-> NoError]
    ELSE LET action == Head(actions)
         IN IF action.target_location \notin DOMAIN locations
            THEN [segs |-> <<>>, err |-> ValueError]
            ELSE LET plan == plan_path(current_pos, target_pos(action))
                     moves == [i \in DOMAIN plan |-> MoveStep(plan[i])]
                     steps == IF action.action_type = "image"
                              THEN Append(moves, ImageStep(action.target_location))
                              ELSE moves
                 IN compile_loop(Tail(actions), target_pos(action), Append(segs, steps))

(* the steps list: what each action appended, in order *)
RECURSIVE steps_of(_)
steps_of(segs) == IF segs = <<>> THEN <<>> ELSE Head(segs) \o steps_of(Tail(segs))

Compile(actions) ==
    /\ pc = "ready"
    /\ LET c == compile_loop(actions, locations["home"], <<>>)
       IN call' = [NoCall EXCEPT !.op = "compile", !.targets = actions,
                                 !.segs = c.segs, !.err = c.err,
                                 !.ret = IF c.err = NoError THEN <<steps_of(c.segs)>> ELSE <<>>]
    /\ pc' = "returned"
    /\ UNCHANGED <<pos, max_z_height, working_volume, homed, tool_offsets>>
    /\ UNCHANGED <<execVars, sessVars, extVars>>

NextCompile ==
    \/ \E actions \in SeqsUpTo(SequenceActions, MaxActions) : Compile(actions)
    \/ Return

SpecCompile == Init /\ [][NextCompile]_vars

----------------------------------------------------------------------------
(* Properties of the protocol compiler *)

AllDefined(actions) == \A k \in DOMAIN actions : actions[k].target_location \in DOMAIN locations

(* the positions of a simulation of the move steps from p: p first, then
   the position after each move step *)
RECURSIVE Visited(_, _)
Visited(p, steps) ==
    IF steps = <<>> THEN <<p>>
    ELSE IF Head(steps).type = "move"
    THEN <<p>> \o Visited(Coordinates(Head(steps).x, Head(steps).y, Head(steps).z), Tail(steps))
    ELSE Visited(p, Tail(steps))

(* in a simulation every change of X or Y is made at one height, at or
   above the safe height *)
TravelsSafely(visited) ==
    \A n \in 1..(Len(visited) - 1) :
        (visited[n].x # visited[n + 1].x \/ visited[n].y # visited[n + 1].y) =>
            /\ visited[n].z >= deck_safe_z_height
            /\ visited[n + 1].z = visited[n].z

StartOf(k) == IF k = 1 THEN locations["home"] ELSE target_pos(call.targets[k - 1])

(* C33: the compiled steps of a sequence whose locations are all defined,
   simulated in order from the home location, change X or Y only at or
   above safe_z_height, begin an action that starts below it and changes
   X or Y with a lift to safe_z_height at the start XY, and end every
   action at its target; a sequence with an undefined location raises
   ValueError and yields no protocol. *)
C33_CompiledStepsSafe ==
    Finished({"compile"}) =>
        IF AllDefined(call.targets)
        THEN /\ call.err = NoError
             /\ Len(call.segs) = Len(call.targets)
             /\ \A k \in DOMAIN call.targets :
                   LET start == StartOf(k)
                       end == target_pos(call.targets[k])
                       visited == Visited(start, call.segs[k])
                   IN /\ TravelsSafely(visited)
                      /\ visited[Len(visited)] = end
                      /\ (start.z < deck_safe_z_height /\ (start.x # end.x \/ start.y # end.y))
                            => /\ Len(visited) >= 2
                               /\ visited[2] = Coordinates(start.x, start.y, deck_safe_z_height)
        ELSE call.err = ValueError /\ call.ret = <<>>

(* a sequence of two moves was compiled, the second from below the safe
   height to another well: lift, travel, lower *)
C33_Witness ==
    /\ Finished({"compile"})
    /\ call.err = NoError
    /\ Len(call.targets) = 2
    /\ call.targets[1].target_location = "well_A1"
    /\ call.targets[2].target_location = "well_A2"
    /\ Len(call.segs[2]) = 3
    /\ call.segs[2][1] = MoveStep(Coordinates(-10, -10, -5))

----------------------------------------------------------------------------
(* The planner's remaining properties, checked under Spec *)

(* the target got the lift to max_z_height ahead of its commands *)
Lifted(s) == SafeOp /\ s.cur.z < max_z_height /\ XYChanged(s)

AxisMove(letter, value) == <<<<"G", 1>>, <<letter, value>>>>

(* one single-axis move per changed axis, in the order X, Y, Z *)
PerAxisMoves(s) ==
    (IF s.tgt.x # s.cur.x THEN <<AxisMove("X", s.tgt.x)>> ELSE <<>>)
    \o (IF s.tgt.y # s.cur.y THEN <<AxisMove("Y", s.tgt.y)>> ELSE <<>>)
    \o (IF s.tgt.z # s.cur.z THEN <<AxisMove("Z", s.tgt.z)>> ELSE <<>>)

(* C34: a target planned from a Z below safe_z_height without a lift gets
   single-axis moves in the order X, Y, Z: one for each axis whose target
   value differs from the current value, none for an unchanged axis, and no
   command that names two axes. *)
C34_PerAxisOrderBelowSafeZ ==
    Finished(MoveOps) =>
        \A i \in DOMAIN call.segs :
            LET s == call.segs[i] IN
            (s.cur.z < safe_z_height /\ ~Lifted(s)) =>
                /\ s.cmds = PerAxisMoves(s)
                /\ \A j \in DOMAIN s.cmds : Len(s.cmds[j]) = 2

C34_Witness ==
    /\ Finished({"move_to_positions"}) /\ ~call.safe /\ Len(call.segs) = 2
    /\ call.segs[2].cur.z < safe_z_height
    /\ call.segs[2].tgt.y = call.segs[2].cur.y
    /\ call.segs[2].cmds = <<G01_X(call.segs[2].tgt.x), G01_Z(call.segs[2].tgt.z)>>
    /\ call.segs[1].cmds = <<G01_X(call.segs[1].tgt.x), G01_Y(call.segs[1].tgt.y),
                             G01_Z(call.segs[1].tgt.z)>>
    /\ call.err = NoError

ValueErrors == {XOutOfRange, YOutOfRange, ZOutOfRange}

(* C36: when a target of the list handed to move_to_positions fails the
   bounds validation, the call raises the error of the first such target
   and nothing has been written to the device, not even the commands of the
   valid targets ahead of it: the device stands where it stood. *)
C36_BatchAllOrNothing ==
    (/\ Finished({"move_to_positions"})
     /\ \E i \in DOMAIN call.targets : ~InRange(Resolved(call.targets[i]))) =>
            /\ call.err \in ValueErrors
            /\ call.err = FirstOffendingAxis(Resolved(call.targets[FirstInvalid]))
            /\ call.sent = <<>>
            /\ pos = call.cur

C36_Witness ==
    /\ Finished({"move_to_positions"}) /\ Len(call.targets) = 2
    /\ call.tool = "test_tool" /\ call.safe
    /\ InRange(Resolved(call.targets[1]))
    /\ Resolved(call.targets[1]) # call.cur
    /\ ~InRange(Resolved(call.targets[2]))
    /\ call.err \in ValueErrors
    /\ call.sent = <<>>
    /\ pos = call.cur

(* C39: a homing sequence whose home() timed out, so that homed is still
   unset when the sequence ends, leaves max_z_height as it was. *)
C39_CeilingOnlyAfterCompletedHoming ==
    [][(/\ pc = "ready"
        /\ call'.op = "homing_sequence"
        /\ ~homed') => max_z_height' = max_z_height]_vars

----------------------------------------------------------------------------
(* The protocol engine's completion rule, checked under SpecExec *)

DollarCommands == {"$X", "$J=G91 X1", "$$", "$H"}

(* the running call of execute_command stops reading: its response is
   complete and goes on to the error check or to the caller *)
ResponseTaken ==
    /\ Running /\ Running' /\ Len(stack') = Len(stack)
    /\ Top.phase \in {"read", "settings", "wait"}
    /\ Top'.phase \in {"classify", "return"}

(* C35: a call of execute_command for a command that does not start with
   "$" takes its response only out of the wait loop, on a status that
   contains Idle or when the wait timed out; a call for a "$" command takes
   it straight after the read (the settings block for "$$"), without a
   status poll. *)
C35_CompletionObserved ==
    [][ResponseTaken =>
          IF Top.command \in DollarCommands
          THEN Top.phase \in {"read", "settings"} /\ Top.polls = 0
          ELSE Top.phase = "wait" /\ (In("Idle", Top.status) \/ WaitTimeout)]_vars

C35_Witness ==
    /\ xcall.state = "returned"
    /\ xcall.command = "G01 X-10"
    /\ xcall.retries = 0
    /\ xcall.timeout = <<>>
    /\ In("Idle", xcall.result[1])
    /\ Transmit("?", 0) \in xcall.wire

(* the device position ahead of command j of a block run from p *)
Before(p, block, j) == DeviceRun(p, SubSeq(block, 1, j - 1))

ChangesXY(p, cmd) == DeviceStep(p, cmd).x # p.x \/ DeviceStep(p, cmd).y # p.y

(* every command of the blocks sent that changes X or Y runs with the tool
   at or above safe_z_height *)
TravelsAboveSafeZ ==
    \A b \in DOMAIN call.sent :
        \A j \in DOMAIN call.sent[b] :
            ChangesXY(Before(call.cur, call.sent[b], j), call.sent[b][j]) =>
                Before(call.cur, call.sent[b], j).z >= safe_z_height

(* C37, as stated: whatever max_z_height the homing left, every command of
   a block of safe_move or move_to_positions(safe_move_required=True) that
   changes X or Y runs with Z at or above safe_z_height. *)
C37_SafeTravelAnyCeiling ==
    (Finished(MoveOps) /\ SafeOp) => TravelsAboveSafeZ

(* C37, amended: the same for a max_z_height at or above safe_z_height (the
   lift goes to max_z_height, and a tool at max_z_height is not lifted). *)
C37_SafeTravelCeilingAboveSafeZ ==
    (Finished(MoveOps) /\ SafeOp /\ max_z_height >= safe_z_height) => TravelsAboveSafeZ

C37_Witness ==
    /\ Finished({"safe_move"})
    /\ max_z_height = -5
    /\ call.cur.z < safe_z_height
    /\ Len(call.sent) = 1 /\ Len(call.sent[1]) >= 3
    /\ call.sent[1][1] = G01_Z(max_z_height)
    /\ ChangesXY(Before(call.cur, call.sent[1], 2), call.sent[1][2])
    /\ Before(call.cur, call.sent[1], 2).z = -5
    /\ call.err = NoError

(* C38: every Z word of a motion command sent by safe_move, the secondary
   Z move (second_z_cord plus the tool's offset Z) included, lies within
   [working_volume.z, max_z_height]; and a secondary Z move is the last
   motion command of the block, followed by the command that restores the
   feed rate. *)
C38_SafeMoveZWithinBounds ==
    Finished({"safe_move"}) =>
        \A b \in DOMAIN call.sent :
            LET block == call.sent[b]
                n == Len(block)
            IN /\ \A j \in DOMAIN block :
                      (IsMotion(block[j]) /\ HasWord(block[j], "Z")) =>
                          ZValueInRange(WordOf(block[j], "Z"))
               /\ call.second_z # <<>> =>
                      /\ n >= 2
                      /\ block[n - 1] = G01_ZF(call.second_z[1] + tool_offsets[call.tool].z,
                                               SecondZFeed)
                      /\ block[n] = FeedRate(RestoreFeed)

----------------------------------------------------------------------------
(* Commanding and reporting together: move_to_position followed by
   current_coordinates on the report the device gives of the position it
   stands at.  The specification is SpecRoundTrip. *)

(* logical positions asked for with the mill centre and with the offset tool:
   the last of the tool's is clamped at the ceiling *)
CenterRequests == {Coordinates(-100, -100, -50), Coordinates(0, -100, -50),
                   Coordinates(-50, 0, 0)}
OffsetToolRequests == {Coordinates(-110, -110, -60), Coordinates(-10, -110, -60),
                       Coordinates(-110, -110, 0)}

(* the answer to the "?" of current_coordinates: the device reports work
   coordinates when $10 is 0 or 2, machine coordinates otherwise *)
DeviceReport ==
    LET work == /\ <<"$10">> \in DOMAIN config
                /\ config[<<"$10">>] \in {<<"0">>, <<"2">>}
    IN Report(IF work THEN "WPos:" ELSE "MPos:", pos)

NextRoundTrip ==
    \/ \E goto \in CenterRequests : MoveToPosition(goto, "center")
    \/ \E goto \in OffsetToolRequests : MoveToPosition(goto, "test_tool")
    \/ \E device_config \in ReportConfigs : ReadMillConfig(device_config)
    \/ \E tool \in {"center", "test_tool"}, tool_only \in BOOLEAN :
          CurrentCoordinates(<<DeviceReport>>, tool, tool_only)
    \/ Return

SpecRoundTrip == Init /\ [][NextRoundTrip]_vars

(* the logical positions the property ranges over *)
LogicalAxis == {-110, -100, -60, -50, -10, 0}
LogicalPositions == {Coordinates(x, y, z) : x \in LogicalAxis, y \in LogicalAxis,
                                            z \in LogicalAxis}

(* C40: when the device stands at the target resolved for the logical
   position P and a tool, the target being in bounds and its Z not clamped,
   and reports that position as WPos, current_coordinates(tool) returns P. *)
C40_OffsetRoundTrip ==
    (/\ Finished({"current_coordinates"})
     /\ call.err = NoError
     /\ call.tool # None /\ call.safe
     /\ Reported("WPos:", pos)) =>
        \A P \in LogicalPositions :
            (/\ Resolved(P) = pos
             /\ InRange(Resolved(P))
             /\ RawZ(P) = ClampedZ(P)) => call.ret = <<P>>

C40_Witness ==
    /\ Finished({"current_coordinates"})
    /\ call.err = NoError
    /\ call.tool = "test_tool" /\ call.safe
    /\ pos = Coordinates(0, -100, -50)
    /\ Reported("WPos:", pos)
    /\ Resolved(Coordinates(-10, -110, -60)) = pos
    /\ call.ret = <<Coordinates(-10, -110, -60)>>

====
